---- MODULE Spec2Model ----
(***************************************************************************)
(* Model of the car_research scraper worker (src/worker/app): the listing  *)
(* lifecycle reconciler of worker.py, with the candidate selector and the  *)
(* parse stage it drives.  Time is counted in whole days, the unit of the  *)
(* INACTIVE_AFTER_DAYS / DELETE_AFTER_DAYS thresholds.                     *)
(***************************************************************************)
EXTENDS Integers, Sequences, FiniteSets, TLC

(***************************************************************************)
(* Bounds of the model.                                                    *)
(***************************************************************************)
NumListings == 2
MaxTime == 3
MaxTimeConcurrent == 1
MaxTimeModes == 1
\* The time of the touch in SpecTouch; the rows it meets were written before.
MaxTimeTouch == 2
MaxPool == 4
MaxCap == 2
MaxSitemaps == 3
MaxEntriesPerSitemap == 3
MaxEntriesTotal == 4
MaxLastmod == 2
MaxBoxes == 2

(***************************************************************************)
(* Configuration values imported from app.config.                          *)
(***************************************************************************)
INACTIVE_AFTER_DAYS == 1
DELETE_AFTER_DAYS == 2
MAX_LISTINGS == 1
PER_MAKE_LIMIT == 1
CONCURRENCY == 2
POOL_SIZE == 2
MAX_RETRIES == 3
MAX_SITEMAPS == 3
URLS_PER_SITEMAP == 2
PrefetchSlackMin == 100
PrefetchSlackPerMake == 30

SOURCE_NAME == "carsensor"
Null == -1

Workers == {1, 2}
ExtIds == 1..NumListings

Max(a, b) == IF a >= b THEN a ELSE b
Min(a, b) == IF a <= b THEN a ELSE b

(***************************************************************************)
(* _canonical_detail_url: the URL of a candidate is a function of its      *)
(* external id (fixed detail-page path template).                          *)
(***************************************************************************)
UrlOf(e) == <<"/usedcar/detail", e, "index.html">>

(***************************************************************************)
(* The listings table.  A row is a record; the table is a set of rows so   *)
(* that the uniqueness of (source, external_id) is a property to check and *)
(* not a consequence of the representation.                                *)
(***************************************************************************)
RowsOf(st, e) == {r \in st : r.source = SOURCE_NAME /\ r.external_id = e}
HasRow(st, e) == RowsOf(st, e) # {}
TheRow(st, e) == CHOOSE r \in RowsOf(st, e) : TRUE

(***************************************************************************)
(* Pages and HTTP responses.  A page body is one of a few kinds, each with *)
(* what the parser reads from it: the make in the h1 title, the year spec  *)
(* box, an unavailability marker.                                          *)
(***************************************************************************)
Bodies == {"toyota", "bmw", "noyear", "ended", "search"}

BodyTitleMake(b) ==
    CASE b = "toyota" -> "ja:toyota"
      [] b = "bmw"    -> "BMW"
      [] b = "noyear" -> "ja:toyota"
      [] OTHER        -> "none"

BodyYear(b) ==
    CASE b = "toyota" -> 2011
      [] b = "bmw"    -> 2015
      [] OTHER        -> Null

BodyHasMarker(b) == b = "ended"

\* translate_make: dictionary lookup; None stays None.
translate_make(raw) ==
    CASE raw = "ja:toyota" -> "Toyota"
      [] raw = "Toyota"    -> "Toyota"
      [] raw = "BMW"       -> "BMW"
      [] raw = "Unknown"   -> "Unknown"
      [] OTHER             -> "none"

\* What HttpClient.get(url, allow_404=True) ends with: a page (after
\* redirects), a 404 response, or an HttpRequestError.
PageResponses ==
    {[kind |-> "page", final |-> "detail", body |-> b, status |-> 200] :
        b \in {"toyota", "bmw", "noyear", "ended"}}
    \cup {[kind |-> "page", final |-> "search", body |-> "search", status |-> 200]}
NotFoundResponse == [kind |-> "404", final |-> "detail", body |-> "search", status |-> 404]
ErrorResponses ==
    {[kind |-> "http_4xx", final |-> "detail", body |-> "search", status |-> 403],
     [kind |-> "http_5xx", final |-> "detail", body |-> "search", status |-> 503],
     [kind |-> "timeout", final |-> "detail", body |-> "search", status |-> Null],
     [kind |-> "connection", final |-> "detail", body |-> "search", status |-> Null],
     [kind |-> "dns", final |-> "detail", body |-> "search", status |-> Null]}
Responses == PageResponses \cup {NotFoundResponse} \cup ErrorResponses
\* What the site serves for a detail page during a cycle of the worker.
SiteResponses == {r \in Responses : r.body # "bmw"}
IsError(resp) == resp \in ErrorResponses

(***************************************************************************)
(* client.py.  A host name is the optional "www." prefix and the rest; a   *)
(* URL is told from another by its host only.                              *)
(***************************************************************************)
HostNames == {"carsensor.net", "carsensor.net.example.org", "example.com", ""}
Hosts == {h \in [www : BOOLEAN, name : HostNames] : h.name = "" => ~h.www}
NoUrl == [www |-> FALSE, name |-> "none"]

\* What one self._session.get ends with: a response with a status code, or
\* a requests.Timeout, or a requests.ConnectionError (a DNS failure is a
\* ConnectionError whose text has one of DNS_ERROR_MARKERS).
TransportOutcomes ==
    {[kind |-> "response", status |-> st] : st \in {200, 403, 404, 503}}
    \cup {[kind |-> k, status |-> Null] : k \in {"timeout", "connection", "dns"}}

\* "carsensor.net" in host_lower
NamesTargetDomain(h) == h.name \in {"carsensor.net", "carsensor.net.example.org"}

\* Mutant: the domain check is dropped.
build_fallback_url_AnyHost(h) ==
    IF h.name = "" THEN NoUrl
    ELSE [h EXCEPT !.www = ~h.www]

build_fallback_url(h) ==
    IF h.name = "" THEN NoUrl
    ELSE IF ~NamesTargetDomain(h) THEN NoUrl
    ELSE [h EXCEPT !.www = ~h.www]

HttpRequestError(status_code, retryable, error_kind) ==
    [kind |-> "error", status |-> status_code, retryable |-> retryable,
     error_kind |-> error_kind]

\* Mutant: a connection error is wrapped without its error_kind.
AttemptResult_UntypedConnection(out, allow_404) ==
    IF out.kind = "response"
    THEN IF out.status = 404 /\ allow_404 THEN out
         ELSE IF out.status >= 500 THEN HttpRequestError(out.status, TRUE, "http_5xx")
         ELSE IF out.status >= 400 THEN HttpRequestError(out.status, FALSE, "http_4xx")
         ELSE out
    ELSE IF out.kind = "timeout" THEN HttpRequestError(Null, TRUE, "timeout")
    ELSE IF out.kind = "dns" THEN HttpRequestError(Null, FALSE, "dns")
    ELSE HttpRequestError(Null, TRUE, "none")

\* The body of the try statement of _request_with_retries for one attempt:
\* the response returned, or the HttpRequestError raised or wrapped.
AttemptResult(out, allow_404) ==
    IF out.kind = "response"
    THEN IF out.status = 404 /\ allow_404 THEN out
         ELSE IF out.status >= 500 THEN HttpRequestError(out.status, TRUE, "http_5xx")
         ELSE IF out.status >= 400 THEN HttpRequestError(out.status, FALSE, "http_4xx")
         ELSE out
    ELSE IF out.kind = "timeout" THEN HttpRequestError(Null, TRUE, "timeout")
    ELSE IF out.kind = "dns" THEN HttpRequestError(Null, FALSE, "dns")
    ELSE HttpRequestError(Null, TRUE, "connection")

\* Mutant: the attempt number is not compared with MAX_RETRIES.
LeavesLoop_NoBudget(res, attempt) ==
    res.kind = "error" /\ ~res.retryable

\* The break conditions of the three except clauses.
LeavesLoop(res, attempt) ==
    res.kind = "error" /\ (~res.retryable \/ attempt >= MAX_RETRIES)

HttpIdle ==
    [pc |-> "idle", url |-> NoUrl, allow_404 |-> FALSE, target |-> NoUrl,
     run |-> 0, attempt |-> 0, trace |-> <<>>, result |-> [kind |-> "none"]]

(***************************************************************************)
(* parser.py                                                               *)
(***************************************************************************)
check_listing_unavailable(body, final) ==
    final = "search" \/ BodyHasMarker(body)

ParseFailure(error_type, status_code, unavailable) ==
    [error_type |-> error_type, status_code |-> status_code, unavailable |-> unavailable]

\* make and year stand for the descriptive, price, dealer and mechanical
\* fields and for scraped_at: the upsert copies every one of them alike.
ListingData(e, make, year) ==
    [external_id |-> e, url |-> UrlOf(e), make |-> make, year |-> year]

\* The result is a pair of option values, as in _process_single_candidate:
\* listing and failure are each the empty set or a singleton.
parse_listing_html(body, e, final) ==
    IF check_listing_unavailable(body, final)
    THEN [listing |-> {}, failure |-> {ParseFailure("listing_unavailable", Null, TRUE)}]
    ELSE IF BodyYear(body) = Null
    THEN [listing |-> {}, failure |-> {ParseFailure("missing_year", Null, FALSE)}]
    ELSE LET make == translate_make(BodyTitleMake(body))
             translated_make == IF make = "none" THEN "Unknown" ELSE make
         IN  [listing |-> {ListingData(e, translated_make, BodyYear(body))},
              failure |-> {}]

quick_extract_make(body) == translate_make(BodyTitleMake(body))

(***************************************************************************)
(* parser.py, the price and year fields.  A text is a sequence of          *)
(* characters: the digits, ".", ",", "man" (the manyen unit sign), "yen",  *)
(* "ask" (a price-not-specified marker) and "era" (any other character).   *)
(* An absent node, attribute or text is the empty sequence where the code  *)
(* has None or "".                                                         *)
(***************************************************************************)
DigitChars == <<"0", "1", "2", "3", "4", "5", "6", "7", "8", "9">>
IsDigit(ch) == \E i \in 1..Len(DigitChars) : DigitChars[i] = ch
DigitVal(ch) == (CHOOSE i \in 1..Len(DigitChars) : DigitChars[i] = ch) - 1

\* int() of a run of digits.
RECURSIVE IntOf(_)
IntOf(digits) ==
    IF digits = <<>> THEN 0
    ELSE IntOf(SubSeq(digits, 1, Len(digits) - 1)) * 10 + DigitVal(digits[Len(digits)])

\* The text without the characters of drop, as in str.replace(ch, "").
RECURSIVE Without(_, _)
Without(text, drop) ==
    IF text = <<>> THEN <<>>
    ELSE IF Head(text) \in drop THEN Without(Tail(text), drop)
    ELSE <<Head(text)>> \o Without(Tail(text), drop)

\* _to_int_digits: all the digits of the text, concatenated; Null if none.
to_int_digits(text) ==
    LET digits == Without(text, {text[i] : i \in {k \in 1..Len(text) : ~IsDigit(text[k])}})
    IN  IF digits = <<>> THEN Null ELSE IntOf(digits)

\* _price_node_text: the strings of the node joined, commas removed.
price_node_text(raw) == Without(raw, {","})

\* The last position of the run of digits that starts at i.
RECURSIVE RunEnd(_, _)
RunEnd(text, i) ==
    IF i < Len(text) /\ IsDigit(text[i + 1]) THEN RunEnd(text, i + 1) ELSE i

\* int(round(a / b)) for a >= 0, b > 0: round half to even.
RoundDiv(a, b) ==
    LET q == a \div b
        r == a % b
    IN  IF 2 * r < b THEN q
        ELSE IF 2 * r > b THEN q + 1
        ELSE IF q % 2 = 0 THEN q ELSE q + 1

RECURSIVE Pow10(_)
Pow10(k) == IF k = 0 THEN 1 ELSE 10 * Pow10(k - 1)

\* PRICE_MANYEN_RE matched at position i: digits, optionally "." and
\* digits, then the unit sign.  The result is <<int digits, frac digits>>
\* or <<>> when there is no match at i.
ManyenMatchAt(text, i) ==
    IF ~IsDigit(text[i]) THEN <<>>
    ELSE LET j == RunEnd(text, i)
             int == SubSeq(text, i, j)
         IN  IF j + 2 <= Len(text) /\ text[j + 1] = "." /\ IsDigit(text[j + 2])
             THEN LET k == RunEnd(text, j + 2)
                  IN  IF k + 1 <= Len(text) /\ text[k + 1] = "man"
                      THEN <<int, SubSeq(text, j + 2, k)>>
                      ELSE <<>>
             ELSE IF j + 1 <= Len(text) /\ text[j + 1] = "man"
             THEN <<int, <<>>>>
             ELSE <<>>

\* PRICE_MANYEN_RE.search: the leftmost match.
ManyenSearch(text) ==
    LET hits == {i \in 1..Len(text) : ManyenMatchAt(text, i) # <<>>}
    IN  IF hits = {} THEN <<>>
        ELSE ManyenMatchAt(text, CHOOSE i \in hits : \A k \in hits : i <= k)

MANYEN_MULTIPLIER == 10000
PRICE_NOT_SPECIFIED_JPY_THRESHOLD == 90000000
INVALID_PRICE_JPY_VALUES == {99999999, 999999999}

\* int(round(float(group) * MANYEN_MULTIPLIER)), on the exact decimal.
ManyenToJpy(m) ==
    IntOf(m[1]) * MANYEN_MULTIPLIER
    + RoundDiv(IntOf(m[2]) * MANYEN_MULTIPLIER, Pow10(Len(m[2])))

sanitize_price_jpy(value) ==
    IF value = Null THEN Null
    ELSE IF value <= 0 THEN Null
    ELSE IF value \in INVALID_PRICE_JPY_VALUES THEN Null
    ELSE IF value >= PRICE_NOT_SPECIFIED_JPY_THRESHOLD THEN Null
    ELSE value

parse_manyen_text_to_jpy(value) ==
    IF value = <<>> THEN Null
    ELSE LET manyen_match == ManyenSearch(Without(value, {","}))
         IN  IF manyen_match = <<>> THEN Null
             ELSE sanitize_price_jpy(ManyenToJpy(manyen_match))

\* "if parsed < MANYEN_MULTIPLIER: parsed *= MANYEN_MULTIPLIER", then sanitize.
ScaledDigits(parsed) ==
    IF parsed = Null THEN Null
    ELSE sanitize_price_jpy(IF parsed < MANYEN_MULTIPLIER THEN parsed * MANYEN_MULTIPLIER
                            ELSE parsed)

parse_numeric_content_to_jpy(content_value) ==
    ScaledDigits(IF content_value = <<>> THEN Null
                 ELSE to_int_digits(Without(content_value, {","})))

HasPriceMarker(text) == \E i \in 1..Len(text) : text[i] = "ask"

\* A price node is [present, text, content]; the result of
\* _parse_base_price_jpy is [price, message].
parse_base_price_jpy(node) ==
    IF ~node.present THEN [price |-> Null, message |-> "price_tag_missing"]
    ELSE
    LET text_value == price_node_text(node.text)
        manyen_price == parse_manyen_text_to_jpy(text_value)
        by_content == parse_numeric_content_to_jpy(node.content)
        by_digits == ScaledDigits(to_int_digits(text_value))
    IN  IF text_value # <<>> /\ HasPriceMarker(text_value)
        THEN [price |-> Null, message |-> "price_not_specified"]
        ELSE IF text_value # <<>> /\ manyen_price # Null
        THEN [price |-> manyen_price, message |-> "none"]
        ELSE IF node.content # <<>> /\ by_content # Null
        THEN [price |-> by_content, message |-> "none"]
        ELSE IF text_value # <<>> /\ by_digits # Null
        THEN [price |-> by_digits, message |-> "none"]
        ELSE [price |-> Null, message |-> "price_content_missing_or_invalid"]

parse_total_price_jpy(node) ==
    IF ~node.present THEN Null
    ELSE
    LET text_value == price_node_text(node.text)
        manyen_price == parse_manyen_text_to_jpy(text_value)
        by_content == parse_numeric_content_to_jpy(node.content)
    IN  IF text_value # <<>> /\ HasPriceMarker(text_value) THEN Null
        ELSE IF text_value # <<>> /\ manyen_price # Null THEN manyen_price
        ELSE IF node.content # <<>> /\ by_content # Null THEN by_content
        ELSE IF text_value = <<>> THEN Null
        ELSE ScaledDigits(to_int_digits(text_value))

\* YEAR_RE.search: the leftmost 19dd or 20dd of the text, Null if none.
YearSearch(text) ==
    LET hits == {i \in 1..(Len(text) - 3) :
                    /\ \A k \in i..(i + 3) : IsDigit(text[k])
                    /\ \/ text[i] = "1" /\ text[i + 1] = "9"
                       \/ text[i] = "2" /\ text[i + 1] = "0"}
    IN  IF hits = {} THEN Null
        ELSE LET i == CHOOSE h \in hits : \A k \in hits : h <= k
             IN  IntOf(SubSeq(text, i, i + 3))

\* A year taken from the table rows when the spec boxes give none.
RECURSIVE extract_year_WithRows(_, _)
extract_year_WithRows(boxes, rows) ==
    IF boxes = <<>>
    THEN IF rows # <<>> /\ Head(rows).key = "year" THEN YearSearch(Head(rows).value) ELSE Null
    ELSE IF Head(boxes).title # "year" THEN extract_year_WithRows(Tail(boxes), rows)
    ELSE YearSearch(Head(boxes).num)

\* _extract_year_from_spec_boxes.  A box is [title, num]: title is "year"
\* when it contains YEAR_LABEL; the first such box decides.  rows, the
\* <tr> rows of the page, are not consulted.
RECURSIVE extract_year_from_spec_boxes(_, _)
extract_year_from_spec_boxes(boxes, rows) ==
    IF boxes = <<>> THEN Null
    ELSE IF Head(boxes).title # "year" THEN extract_year_from_spec_boxes(Tail(boxes), rows)
    ELSE YearSearch(Head(boxes).num)

\* JPY_TO_RUB_RATE as a fraction.
RATE_NUM == 1
RATE_DEN == 2
ToRub(jpy) == IF jpy = Null THEN Null ELSE RoundDiv(jpy * RATE_NUM, RATE_DEN)

\* "total_price_jpy < price_jpy: total_price_jpy = None", with the test left out.
KeptTotal_Always(price_jpy, total_price_jpy) == total_price_jpy

KeptTotal(price_jpy, total_price_jpy) ==
    IF price_jpy # Null /\ total_price_jpy # Null /\ total_price_jpy < price_jpy
    THEN Null
    ELSE total_price_jpy

\* parse_listing_html on the fields of the page that decide the year and
\* the prices.  A page is [final, marker, boxes, rows, base, total]; the
\* title, the label map and the fields read from them are those of
\* parse_listing_html above and are left out here.
parse_listing_fields(page, e) ==
    IF page.final = "search" \/ page.marker
    THEN [listing |-> {}, failure |-> {ParseFailure("listing_unavailable", Null, TRUE)}]
    ELSE
    LET year == extract_year_from_spec_boxes(page.boxes, page.rows)
        price_jpy == parse_base_price_jpy(page.base).price
        total_price_jpy == KeptTotal(price_jpy, parse_total_price_jpy(page.total))
    IN  IF year = Null
        THEN [listing |-> {}, failure |-> {ParseFailure("missing_year", Null, FALSE)}]
        ELSE [listing |-> {[external_id |-> e, url |-> UrlOf(e), year |-> year,
                            price_jpy |-> price_jpy, price_rub |-> ToRub(price_jpy),
                            total_price_jpy |-> total_price_jpy,
                            total_price_rub |-> ToRub(total_price_jpy)]},
              failure |-> {}]

NoNode == [present |-> FALSE, text |-> <<>>, content |-> <<>>]
ParserIdle ==
    [pc |-> "idle",
     page |-> [final |-> "detail", marker |-> FALSE, boxes |-> <<>>, rows |-> <<>>,
               base |-> NoNode, total |-> NoNode],
     result |-> [listing |-> {}, failure |-> {}]]

(***************************************************************************)
(* selector.py.  Candidates are external ids; dictionaries keyed by URL    *)
(* are functions whose domain is a set of external ids.                    *)
(***************************************************************************)
EmptyMap == [x \in {} |-> "none"]
Slice(s, offset, size) == SubSeq(s, offset + 1, Min(offset + size, Len(s)))
SeqRange(s) == {s[i] : i \in 1..Len(s)}

\* The loop over as_completed(future_to_candidate) for one batch: every
\* entry written is keyed by its own candidate, so the completion order
\* does not show in the result.
PrefetchBatch(batch, resp, acc) ==
    LET fetched == {batch[i] : i \in {j \in 1..Len(batch) : resp[batch[j]].kind = "page"}}
        makeOf(c) == LET q == quick_extract_make(resp[c].body)
                     IN  IF q = "none" THEN "Unknown" ELSE q
    IN  [make_by_url |-> [c \in fetched |-> makeOf(c)] @@ acc.make_by_url,
         html_cache  |-> [c \in fetched |-> resp[c].body] @@ acc.html_cache]

RECURSIVE PrefetchFrom(_, _, _, _, _)
PrefetchFrom(candidates, resp, max_needed, offset, acc) ==
    IF offset >= Len(candidates) THEN acc
    ELSE IF Cardinality(DOMAIN acc.make_by_url) >= max_needed THEN acc
    ELSE PrefetchFrom(candidates, resp, max_needed, offset + CONCURRENCY,
                      PrefetchBatch(Slice(candidates, offset, CONCURRENCY), resp, acc))

prefetch_make_and_html(candidates, resp, max_needed) ==
    PrefetchFrom(candidates, resp, max_needed, 0,
                 [make_by_url |-> EmptyMap, html_cache |-> EmptyMap])

\* sorted(grouped.keys()): the alphabetical order of the make names.
MakeNames == <<"BMW", "Toyota", "Unknown">>
MakeOrder(makes) ==
    LET keep == {i \in 1..Len(MakeNames) : MakeNames[i] \in makes}
        RECURSIVE Build(_)
        Build(i) == IF i > Len(MakeNames) THEN <<>>
                    ELSE IF i \in keep THEN <<MakeNames[i]>> \o Build(i + 1)
                    ELSE Build(i + 1)
    IN  Build(1)

\* The elements of s that are in keep, in the order of s.
FilterSeq(s, keep) ==
    LET RECURSIVE F(_)
        F(i) == IF i > Len(s) THEN <<>>
                ELSE IF s[i] \in keep THEN <<s[i]>> \o F(i + 1) ELSE F(i + 1)
    IN  F(1)

Take(st, make) ==
    [grouped  |-> [st.grouped EXCEPT ![make] = Tail(@)],
     selected |-> Append(st.selected, Head(st.grouped[make])),
     counter  |-> [st.counter EXCEPT ![make] = @ + 1],
     progressed |-> TRUE]

\* Mutant: the per-make cap is not checked.
RECURSIVE RoundPass_NoCap(_, _, _, _, _)
RoundPass_NoCap(st, order, i, max_listings, per_make_limit) ==
    IF i > Len(order) THEN st
    ELSE IF Len(st.selected) >= max_listings THEN st
    ELSE IF st.grouped[order[i]] = <<>>
    THEN RoundPass_NoCap(st, order, i + 1, max_listings, per_make_limit)
    ELSE RoundPass_NoCap(Take(st, order[i]), order, i + 1, max_listings, per_make_limit)

\* One pass of "for make in make_order" inside the round-robin loop.
RECURSIVE RoundPass(_, _, _, _, _)
RoundPass(st, order, i, max_listings, per_make_limit) ==
    IF i > Len(order) THEN st
    ELSE IF Len(st.selected) >= max_listings THEN st
    ELSE IF st.grouped[order[i]] = <<>> \/ st.counter[order[i]] >= per_make_limit
    THEN RoundPass(st, order, i + 1, max_listings, per_make_limit)
    ELSE RoundPass(Take(st, order[i]), order, i + 1, max_listings, per_make_limit)

RECURSIVE RoundRobin(_, _, _, _)
RoundRobin(st, order, max_listings, per_make_limit) ==
    IF Len(st.selected) >= max_listings THEN st
    ELSE LET after == RoundPass([st EXCEPT !.progressed = FALSE], order, 1,
                                max_listings, per_make_limit)
         IN  IF ~after.progressed THEN after
             ELSE RoundRobin(after, order, max_listings, per_make_limit)

\* Mutant: nothing is taken past the per-make cap.
Drain_CapKept(st, order, i, max_listings) == st

\* "continue draining remaining candidates per make ignoring the cap".
RECURSIVE Drain(_, _, _, _)
Drain(st, order, i, max_listings) ==
    IF i > Len(order) THEN st
    ELSE IF st.grouped[order[i]] # <<>> /\ Len(st.selected) < max_listings
    THEN Drain(Take(st, order[i]), order, i, max_listings)
    ELSE IF Len(st.selected) >= max_listings THEN st
    ELSE Drain(st, order, i + 1, max_listings)

\* A prefetch target without the slack over max_listings.
PrefetchTarget_NoSlack(sampling_candidates, max_listings, per_make_limit) ==
    Min(max_listings, Len(sampling_candidates))

\* prefetch_target, and the prefetch it bounds.
PrefetchTarget(sampling_candidates, max_listings, per_make_limit) ==
    Min(max_listings + Max(PrefetchSlackMin, per_make_limit * PrefetchSlackPerMake),
        Len(sampling_candidates))

Prefetched(sampling_candidates, resp, max_listings, per_make_limit) ==
    prefetch_make_and_html(sampling_candidates, resp,
                           PrefetchTarget(sampling_candidates, max_listings, per_make_limit))

\* grouped, selected and selected_counter before the round-robin loop.
GroupedStart(sampling_candidates, make_by_url) ==
    LET known == DOMAIN make_by_url
        makes == {make_by_url[c] : c \in known}
        InMake(m) == FilterSeq(sampling_candidates, {c \in known : make_by_url[c] = m})
    IN  [grouped |-> [m \in makes |-> InMake(m)],
         selected |-> <<>>,
         counter |-> [m \in makes |-> 0],
         progressed |-> FALSE]

select_candidates_by_make(sampling_candidates, resp, max_listings, per_make_limit) ==
    IF max_listings <= 0
    THEN [selected |-> <<>>, html_cache |-> EmptyMap, distribution |-> EmptyMap]
    ELSE
    LET pre == Prefetched(sampling_candidates, resp, max_listings, per_make_limit)
        known == DOMAIN pre.make_by_url
        makes == {pre.make_by_url[c] : c \in known}
        leftovers == FilterSeq(sampling_candidates, SeqRange(sampling_candidates) \ known)
        order == MakeOrder(makes)
        start == GroupedStart(sampling_candidates, pre.make_by_url)
        rr == RoundRobin(start, order, max_listings, per_make_limit)
        drained == IF Len(rr.selected) < max_listings
                   THEN Drain(rr, order, 1, max_listings) ELSE rr
        missing == max_listings - Len(drained.selected)
        selected == IF Len(drained.selected) < max_listings /\ leftovers # <<>>
                    THEN drained.selected \o SubSeq(leftovers, 1, Min(missing, Len(leftovers)))
                    ELSE drained.selected
    IN  [selected |-> selected,
         html_cache |-> pre.html_cache,
         distribution |-> [m \in {x \in makes : drained.counter[x] > 0} |-> drained.counter[m]]]

(***************************************************************************)
(* sitemaps.py: discovery.  A <url> node of a detail sitemap is a record    *)
(* [loc, lastmod]: loc is the raw address, with or without the www. prefix *)
(* and naming the detail page of a listing or (id = Null) some other page; *)
(* lastmod is a time, or Null when the node has no parsable <lastmod>.     *)
(***************************************************************************)
\* The listings of the sitemaps: one more than POOL_SIZE.
SitemapIds == 1..(POOL_SIZE + 1)
Locs == [www : BOOLEAN, id : SitemapIds \cup {Null}]
LastmodTexts == (1..MaxLastmod) \cup {Null}
\* The <url> nodes drawn: every lastmod for listing 1 under the bare host,
\* one node of listing 1 under the www. host, dated nodes of the other
\* listings, and one node that is not a detail page.
UrlNodes ==
    {e \in [loc : Locs, lastmod : LastmodTexts] :
        /\ e.loc.www => (e.loc.id = 1 /\ e.lastmod = MaxLastmod)
        /\ e.loc.id = Null => e.lastmod = Null
        /\ e.lastmod = Null => e.loc.id \in {1, Null}}

\* _canonical_detail_url: scheme and host are replaced by those of the base
\* URL, so the canonical URL is determined by the id of the path.
canonical_detail_url(loc) == IF loc.id = Null THEN NoUrl ELSE UrlOf(loc.id)
extract_external_id(url) == IF url = NoUrl THEN Null ELSE CHOOSE x \in SitemapIds : UrlOf(x) = url
parse_datetime(value, fallback) == IF value = Null THEN fallback ELSE value

ListingCandidate(external_id, url, lastmod) ==
    [external_id |-> external_id, url |-> url, lastmod |-> lastmod]

\* _parse_detail_sitemap on the <url> nodes of a document.
parse_detail_sitemap(url_nodes, discovered_at) ==
    LET nodes == SubSeq(url_nodes, 1, Min(URLS_PER_SITEMAP, Len(url_nodes)))
        RECURSIVE Out(_)
        Out(i) ==
            IF i > Len(nodes) THEN <<>>
            ELSE LET canonical_url == canonical_detail_url(nodes[i].loc)
                 IN  IF canonical_url = NoUrl THEN Out(i + 1)
                     ELSE <<ListingCandidate(extract_external_id(canonical_url), canonical_url,
                                             parse_datetime(nodes[i].lastmod, discovered_at))>>
                          \o Out(i + 1)
    IN  Out(1)

per_sitemap_cap(n) == Max(1, (POOL_SIZE + Max(1, n) - 1) \div Max(1, n))

\* Mutant: on a conflict the entry already stored is kept.
MergeCandidate_KeepFirst(by_url, candidate) ==
    IF \E i \in 1..Len(by_url) : by_url[i].url = candidate.url
    THEN by_url
    ELSE Append(by_url, candidate)

\* "if existing is None or candidate.lastmod > existing.lastmod".  by_url is
\* the dict in insertion order: a replaced entry keeps its position.
MergeCandidate(by_url, candidate) ==
    IF \E i \in 1..Len(by_url) : by_url[i].url = candidate.url
    THEN LET i == CHOOSE k \in 1..Len(by_url) : by_url[k].url = candidate.url
         IN  IF candidate.lastmod > by_url[i].lastmod
             THEN [by_url EXCEPT ![i] = candidate]
             ELSE by_url
    ELSE Append(by_url, candidate)

RECURSIVE MergeAll(_, _)
MergeAll(by_url, parsed) ==
    IF parsed = <<>> THEN by_url
    ELSE MergeAll(MergeCandidate(by_url, Head(parsed)), Tail(parsed))

\* Mutant: the values of by_url are returned in insertion order.
SortedByLastmod_Unsorted(items) == items

\* sorted(..., key=lastmod, reverse=True): stable, equal keys keep their order.
SortedByLastmod(items) ==
    LET RECURSIVE Insert(_, _)
        Insert(sorted, x) ==
            IF sorted = <<>> THEN <<x>>
            ELSE IF Head(sorted).lastmod >= x.lastmod
                 THEN <<Head(sorted)>> \o Insert(Tail(sorted), x)
                 ELSE <<x>> \o sorted
        RECURSIVE Sort(_, _)
        Sort(i, acc) == IF i > Len(items) THEN acc ELSE Sort(i + 1, Insert(acc, items[i]))
    IN  Sort(1, <<>>)

CandidatePool(by_url) ==
    LET sorted == SortedByLastmod(by_url)
    IN  SubSeq(sorted, 1, Min(POOL_SIZE, Len(sorted)))

DiscoveryIdle ==
    [pc |-> "idle", detail_sitemaps |-> <<>>, offset |-> 0, pending |-> {},
     by_url |-> <<>>, clock |-> 0, parsed |-> <<>>,
     processed_sitemaps |-> 0, failed_sitemaps |-> 0, result |-> <<>>]

\* The state of the selector between calls.
SelectorIdle ==
    [pc |-> "idle", sampling_candidates |-> <<>>, resp |-> EmptyMap,
     max_listings |-> 0, per_make_limit |-> 0,
     result |-> [selected |-> <<>>, html_cache |-> EmptyMap, distribution |-> EmptyMap]]

(***************************************************************************)
(* worker.py: the statements on the listings table.  Each function runs    *)
(* its statements in one session and commits once, so each is one atomic   *)
(* write at time t = datetime.now().                                       *)
(***************************************************************************)
PlaceholderRow(e, t) ==
    [source |-> SOURCE_NAME, external_id |-> e, url |-> UrlOf(e),
     maker |-> "Unknown", year |-> Null,
     last_seen_at |-> t, is_active |-> TRUE, deleted_at |-> Null]

\* Mutant: the conflict branch refreshes url and last_seen_at only.
TouchStatement_NoReactivate(st, ids, t) ==
    LET hit(r) == r.source = SOURCE_NAME /\ r.external_id \in ids
    IN  {r \in st : ~hit(r)}
        \cup {[r EXCEPT !.url = UrlOf(r.external_id), !.last_seen_at = t] : r \in {x \in st : hit(x)}}
        \cup {PlaceholderRow(e, t) : e \in {x \in ids : ~HasRow(st, x)}}

\* Mutant: the conflict clause sets is_active and leaves deleted_at.
TouchStatement_KeepDeletedAt(st, ids, t) ==
    LET hit(r) == r.source = SOURCE_NAME /\ r.external_id \in ids
    IN  {r \in st : ~hit(r)}
        \cup {[r EXCEPT !.url = UrlOf(r.external_id), !.last_seen_at = t,
                        !.is_active = TRUE] : r \in {x \in st : hit(x)}}
        \cup {PlaceholderRow(e, t) : e \in {x \in ids : ~HasRow(st, x)}}

\* Mutant: the conflict clause sets every column of the placeholder row.
TouchStatement_Placeholder(st, ids, t) ==
    {r \in st : ~(r.source = SOURCE_NAME /\ r.external_id \in ids)}
    \cup {PlaceholderRow(e, t) : e \in ids}

\* INSERT ... ON CONFLICT (source, external_id) DO UPDATE SET url,
\* last_seen_at, is_active, deleted_at.
TouchStatement(st, ids, t) ==
    LET hit(r) == r.source = SOURCE_NAME /\ r.external_id \in ids
    IN  {r \in st : ~hit(r)}
        \cup {[r EXCEPT !.url = UrlOf(r.external_id), !.last_seen_at = t,
                        !.is_active = TRUE, !.deleted_at = Null] : r \in {x \in st : hit(x)}}
        \cup {PlaceholderRow(e, t) : e \in {x \in ids : ~HasRow(st, x)}}

\* The count the function returns: rows of the batch that were inactive.
TouchReactivated(st, ids) ==
    Cardinality({r \in st : r.source = SOURCE_NAME /\ r.external_id \in ids /\ ~r.is_active})

PayloadRow(row, t) ==
    [source |-> SOURCE_NAME, external_id |-> row.external_id, url |-> row.url,
     maker |-> row.make, year |-> row.year,
     last_seen_at |-> t, is_active |-> TRUE, deleted_at |-> Null]

\* Mutant: a plain INSERT, without the conflict clause.
UpsertStatement_PlainInsert(st, rows, t) ==
    st \cup {PayloadRow(row, t) : row \in rows}

\* Mutant: the conflict branch leaves is_active and deleted_at as they were.
UpsertStatement_NoReactivate(st, rows, t) ==
    LET ids == {row.external_id : row \in rows}
        payloadFor(e) == PayloadRow(CHOOSE row \in rows : row.external_id = e, t)
        hit(r) == r.source = SOURCE_NAME /\ r.external_id \in ids
    IN  {r \in st : ~hit(r)}
        \cup {[payloadFor(r.external_id) EXCEPT !.is_active = r.is_active,
                                                !.deleted_at = r.deleted_at] :
                 r \in {x \in st : hit(x)}}
        \cup {payloadFor(e) : e \in {x \in ids : ~HasRow(st, x)}}

\* INSERT ... ON CONFLICT (source, external_id) DO UPDATE SET every column
\* of the payload.
UpsertStatement(st, rows, t) ==
    LET ids == {row.external_id : row \in rows}
        payloadFor(e) == PayloadRow(CHOOSE row \in rows : row.external_id = e, t)
        hit(r) == r.source = SOURCE_NAME /\ r.external_id \in ids
    IN  {r \in st : ~hit(r)}
        \cup {payloadFor(r.external_id) : r \in {x \in st : hit(x)}}
        \cup {payloadFor(e) : e \in {x \in ids : ~HasRow(st, x)}}

\* Mutant: the unavailable rows are deleted instead of flagged.
MarkUnavailableStatement_Delete(st, ids, t) ==
    {r \in st : ~(r.source = SOURCE_NAME /\ r.external_id \in ids)}

\* Mutant: deleted_at and last_seen_at are set, is_active is not.
MarkUnavailableStatement_KeepActive(st, ids, t) ==
    LET hit(r) == r.source = SOURCE_NAME /\ r.external_id \in ids
    IN  {r \in st : ~hit(r)}
        \cup {[r EXCEPT !.deleted_at = t, !.last_seen_at = t] : r \in {x \in st : hit(x)}}

\* UPDATE ... WHERE source = SOURCE_NAME AND external_id IN ids.
MarkUnavailableStatement(st, ids, t) ==
    LET hit(r) == r.source = SOURCE_NAME /\ r.external_id \in ids
    IN  {r \in st : ~hit(r)}
        \cup {[r EXCEPT !.is_active = FALSE, !.deleted_at = t, !.last_seen_at = t] :
                 r \in {x \in st : hit(x)}}

\* The rows the first statement of _cleanup_stale updates.
StaleActive(st, t) ==
    {r \in st : r.source = SOURCE_NAME /\ r.is_active
                /\ r.last_seen_at < t - INACTIVE_AFTER_DAYS}

\* Mutant: deleted_at is set, is_active is not.
DeactivateStatement_KeepActive(st, t) ==
    (st \ StaleActive(st, t))
    \cup {[r EXCEPT !.deleted_at = t] : r \in StaleActive(st, t)}

DeactivateStatement(st, t) ==
    (st \ StaleActive(st, t))
    \cup {[r EXCEPT !.is_active = FALSE, !.deleted_at = t] : r \in StaleActive(st, t)}

\* Mutant: the DELETE reuses the cutoff of the deactivation.
DeleteMatches_DeactivateCutoff(st, t) ==
    {r \in st : r.source = SOURCE_NAME /\ ~r.is_active
                /\ r.last_seen_at < t - INACTIVE_AFTER_DAYS}

\* The rows the second statement of _cleanup_stale deletes.
DeleteMatches(st, t) ==
    {r \in st : r.source = SOURCE_NAME /\ ~r.is_active
                /\ r.last_seen_at < t - DELETE_AFTER_DAYS}

DeleteStatement(st, t) == st \ DeleteMatches(st, t)

\* _normalize_existing_translations: rows whose maker holds Japanese text
\* are translated again.
NeedsTranslation(r) == r.source = SOURCE_NAME /\ r.maker = "ja:toyota"
NormalizeStatement(st) ==
    {r \in st : ~NeedsTranslation(r)}
    \cup {[r EXCEPT !.maker = translate_make(r.maker)] : r \in {x \in st : NeedsTranslation(x)}}

(***************************************************************************)
(* worker.py: the parse stage.                                             *)
(***************************************************************************)
\* Mutant: a 404 answer is reported as an ordinary HTTP failure.
process_single_candidate_404NotUnavailable(e, html_cache, resp) ==
    IF e \in DOMAIN html_cache
    THEN parse_listing_html(html_cache[e], e, "detail")
    ELSE IF resp.kind = "404"
    THEN [listing |-> {}, failure |-> {ParseFailure("http_404", 404, FALSE)}]
    ELSE IF IsError(resp)
    THEN [listing |-> {},
          failure |-> {ParseFailure("http_error", resp.status, resp.status = 404)}]
    ELSE parse_listing_html(resp.body, e, resp.final)

\* resp is what client.get(candidate.url, allow_404=True) ends with when
\* the page is not in the cache.
process_single_candidate(e, html_cache, resp) ==
    IF e \in DOMAIN html_cache
    THEN parse_listing_html(html_cache[e], e, "detail")
    ELSE IF resp.kind = "404"
    THEN [listing |-> {}, failure |-> {ParseFailure("http_404", 404, TRUE)}]
    ELSE IF IsError(resp)
    THEN [listing |-> {},
          failure |-> {ParseFailure("http_error", resp.status, resp.status = 404)}]
    ELSE parse_listing_html(resp.body, e, resp.final)

EmptyResult ==
    [parsed |-> {}, failed_parse |-> 0, unavailable_external_ids |-> {},
     failed_rows |-> {}, processed |-> 0]

FailedRow(e, failure) ==
    [url |-> UrlOf(e), source_listing_id |-> e,
     error_type |-> failure.error_type, status_code |-> failure.status_code]

\* Mutant: every failed candidate is counted as unavailable.
Accumulate_AllUnavailable(pr, e, out) ==
    IF out.listing # {}
    THEN [pr EXCEPT !.processed = @ + 1, !.parsed = @ \cup out.listing]
    ELSE LET failure == CHOOSE f \in out.failure : TRUE
         IN  [pr EXCEPT !.processed = @ + 1,
                        !.failed_parse = @ + 1,
                        !.unavailable_external_ids = @ \cup {e},
                        !.failed_rows = @ \cup {FailedRow(e, failure)}]

\* Mutant: an unavailable candidate is noted in the set and gets no
\* failure row.
Accumulate_SkipUnavailableRow(pr, e, out) ==
    IF out.listing # {}
    THEN [pr EXCEPT !.processed = @ + 1, !.parsed = @ \cup out.listing]
    ELSE LET failure == CHOOSE f \in out.failure : TRUE
         IN  IF failure.unavailable
             THEN [pr EXCEPT !.processed = @ + 1,
                             !.failed_parse = @ + 1,
                             !.unavailable_external_ids = @ \cup {e}]
             ELSE [pr EXCEPT !.processed = @ + 1,
                             !.failed_parse = @ + 1,
                             !.failed_rows = @ \cup {FailedRow(e, failure)}]

\* The body of "for future in as_completed(...)" for one finished task.
\* parsed_rows and failed_rows are lists in the code; each candidate adds
\* one element and the writes that read them are keyed by external id, so
\* they are kept as sets.
Accumulate(pr, e, out) ==
    IF out.listing # {}
    THEN [pr EXCEPT !.processed = @ + 1, !.parsed = @ \cup out.listing]
    ELSE LET failure == CHOOSE f \in out.failure : TRUE
         IN  [pr EXCEPT !.processed = @ + 1,
                        !.failed_parse = @ + 1,
                        !.unavailable_external_ids =
                            IF failure.unavailable THEN @ \cup {e} ELSE @,
                        !.failed_rows = @ \cup {FailedRow(e, failure)}]

\* The candidates of the batch being processed that have not finished yet.
DoneIds(pr) == {row.external_id : row \in pr.parsed}
               \cup {row.source_listing_id : row \in pr.failed_rows}
CurrentBatch(sel, pr) ==
    SeqRange(Slice(sel, (pr.processed \div CONCURRENCY) * CONCURRENCY, CONCURRENCY))
    \ DoneIds(pr)

(***************************************************************************)
(* run_cycle and main: the order of the stages of one cycle.               *)
(***************************************************************************)
\* Mutant: the touch runs after the parse stage.
NextStage_TouchLate(stage) ==
    CASE stage = "discover"    -> "normalize"
      [] stage = "normalize"   -> "select"
      [] stage = "select"      -> "process"
      [] stage = "process"     -> "touch"
      [] stage = "touch"       -> "upsert"
      [] stage = "upsert"      -> "failures"
      [] stage = "failures"    -> "unavailable"
      [] stage = "unavailable" -> "cleanup"
      [] stage = "cleanup"     -> "summary"
      [] OTHER                 -> "idle"

\* Mutant: the deactivations and the sweep run before the upsert.
NextStage_SweepBeforeUpsert(stage) ==
    CASE stage = "discover"    -> "touch"
      [] stage = "touch"       -> "normalize"
      [] stage = "normalize"   -> "select"
      [] stage = "select"      -> "process"
      [] stage = "process"     -> "unavailable"
      [] stage = "unavailable" -> "cleanup"
      [] stage = "cleanup"     -> "upsert"
      [] stage = "upsert"      -> "failures"
      [] stage = "failures"    -> "summary"
      [] OTHER                 -> "idle"

NextStage(stage) ==
    CASE stage = "discover"    -> "touch"
      [] stage = "touch"       -> "normalize"
      [] stage = "normalize"   -> "select"
      [] stage = "select"      -> "process"
      [] stage = "process"     -> "upsert"
      [] stage = "upsert"      -> "failures"
      [] stage = "failures"    -> "unavailable"
      [] stage = "unavailable" -> "cleanup"
      [] stage = "cleanup"     -> "summary"
      [] OTHER                 -> "idle"

CycleStages == {"discover", "touch", "normalize", "select", "process",
                "upsert", "failures", "unavailable", "cleanup"}
\* Network calls are the only suspension points of a cycle: measured in
\* days, time passes while the worker sleeps or fetches, not between two
\* consecutive database statements.
SuspensionStages == {"idle", "select", "process"}

Perms(S) == {q \in [1..Cardinality(S) -> S] : \A i, j \in 1..Cardinality(S) : q[i] = q[j] => i = j}

VARIABLES
    now,            \* the clock, in days
    running,        \* the worker processes that run
    store,          \* the listings table
    failed_scrapes, \* the rows each worker's running cycle appended to failed_scrapes
    pc,             \* the stage each worker is at
    listings_per_cycle, \* the MAX_LISTINGS the workers are configured with
    horizon,        \* the day the clock stops at
    run_once,       \* WORKER_RUN_ONCE
    observe_404,    \* whether prefetch_404 is recorded
    candidates,     \* run_cycle: the discovered pool
    reactivated,    \* run_cycle: what _touch_discovered returned
    selected,       \* run_cycle: the selected candidates
    html_cache,     \* run_cycle: the page bodies kept by the prefetch
    prefetch_404,   \* the candidates whose prefetch returned HTTP 404
    process_result, \* run_cycle: the ProcessResult being built
    swept,          \* run_cycle: the rows _cleanup_stale deactivated and deleted
    failed_at,      \* the stage at which the cycle raised
    http,           \* HttpClient: the call of get in progress
    sel,            \* select_candidates_by_make: the arguments and the result of a call
    disc,           \* discover_candidates: the call in progress
    prs             \* parse_listing_html: the page and the result of a call

vars == <<now, running, store, failed_scrapes, pc, listings_per_cycle, horizon, run_once, observe_404, http, sel, disc, prs, candidates, reactivated,
          selected, html_cache, prefetch_404, process_result, swept, failed_at>>

\* The state of the components a cycle of the worker calls into.
components == <<http, sel, disc, prs>>

locals == <<candidates, reactivated, selected, html_cache, prefetch_404,
            process_result, failed_scrapes, swept>>

NoSweep == [deactivated |-> {}, deleted |-> {}]

InitWith(ws, ml, h, once, obs) ==
    /\ now = 0
    /\ running = ws
    /\ store = {}
    /\ failed_scrapes = [w \in Workers |-> {}]
    /\ pc = [w \in Workers |-> "idle"]
    /\ listings_per_cycle = ml
    /\ horizon = h
    /\ run_once = once
    /\ observe_404 = obs
    /\ candidates = [w \in Workers |-> {}]
    /\ reactivated = [w \in Workers |-> 0]
    /\ selected = [w \in Workers |-> <<>>]
    /\ html_cache = [w \in Workers |-> EmptyMap]
    /\ prefetch_404 = [w \in Workers |-> {}]
    /\ process_result = [w \in Workers |-> EmptyResult]
    /\ swept = [w \in Workers |-> NoSweep]
    /\ failed_at = [w \in Workers |-> "none"]
    /\ http = HttpIdle
    /\ sel = SelectorIdle
    /\ disc = DiscoveryIdle
    /\ prs = ParserIdle

Init == InitWith({1}, MAX_LISTINGS, MaxTime, FALSE, FALSE)

ResetLocals(w) ==
    /\ candidates' = [candidates EXCEPT ![w] = {}]
    /\ reactivated' = [reactivated EXCEPT ![w] = 0]
    /\ selected' = [selected EXCEPT ![w] = <<>>]
    /\ html_cache' = [html_cache EXCEPT ![w] = EmptyMap]
    /\ prefetch_404' = [prefetch_404 EXCEPT ![w] = {}]
    /\ process_result' = [process_result EXCEPT ![w] = EmptyResult]
    /\ failed_scrapes' = [failed_scrapes EXCEPT ![w] = {}]
    /\ swept' = [swept EXCEPT ![w] = NoSweep]

\* time.sleep / the time a fetch takes.
Tick ==
    /\ now < horizon
    /\ \E w \in running : pc[w] \in SuspensionStages
    /\ now' = now + 1
    /\ UNCHANGED <<running, store, pc, listings_per_cycle, horizon, run_once, observe_404, components, locals, failed_at>>

\* main, after run_cycle returned or raised: return in run-once mode, else
\* sleep until the next cycle.
AfterCycle == IF run_once THEN "stopped" ELSE "idle"

\* A handler that ends the process when run_cycle raised.
AfterFailure_Stop == "stopped"

\* main, after "except Exception: logger.exception(...)": the same code as
\* after a cycle that returned.
AfterFailure == AfterCycle

\* main: the next iteration of "while True" calls run_cycle.
StartCycle(w) ==
    /\ pc[w] = "idle"
    /\ pc' = [pc EXCEPT ![w] = "discover"]
    /\ UNCHANGED <<now, running, store, listings_per_cycle, horizon, run_once, observe_404, components, locals, failed_at>>

\* run_cycle: discover_candidates, and the early return on an empty pool.
Discover(w) ==
    /\ pc[w] = "discover"
    /\ \E pool \in SUBSET ExtIds :
        /\ Cardinality(pool) <= POOL_SIZE
        /\ candidates' = [candidates EXCEPT ![w] = pool]
        /\ pc' = [pc EXCEPT ![w] = IF pool = {} THEN AfterCycle ELSE NextStage("discover")]
    /\ UNCHANGED <<now, running, store, failed_scrapes, listings_per_cycle, horizon, run_once, observe_404, components, reactivated, selected,
                   html_cache, prefetch_404, process_result, swept, failed_at>>

\* _touch_discovered
TouchDiscovered(w) ==
    /\ pc[w] = "touch"
    /\ IF candidates[w] = {}
       THEN /\ reactivated' = [reactivated EXCEPT ![w] = 0]
            /\ store' = store
       ELSE /\ reactivated' = [reactivated EXCEPT ![w] = TouchReactivated(store, candidates[w])]
            /\ store' = TouchStatement(store, candidates[w], now)
    /\ pc' = [pc EXCEPT ![w] = NextStage("touch")]
    /\ UNCHANGED <<now, running, failed_scrapes, listings_per_cycle, horizon, run_once, observe_404, components, candidates, selected,
                   html_cache, prefetch_404, process_result, swept, failed_at>>

\* _normalize_existing_translations
NormalizeExistingTranslations(w) ==
    /\ pc[w] = "normalize"
    /\ store' = NormalizeStatement(store)
    /\ pc' = [pc EXCEPT ![w] = NextStage("normalize")]
    \* run_cycle drops the count _touch_discovered returned
    /\ reactivated' = [reactivated EXCEPT ![w] = 0]
    /\ UNCHANGED <<now, running, failed_scrapes, listings_per_cycle, horizon, run_once, observe_404, components, candidates, selected,
                   html_cache, prefetch_404, process_result, swept, failed_at>>

\* select_candidates_by_make: random.shuffle picks the order, the site
\* picks what each prefetch ends with.
SelectCandidates(w) ==
    /\ pc[w] = "select"
    /\ \E order \in Perms(candidates[w]), resp \in [candidates[w] -> SiteResponses] :
        LET res == select_candidates_by_make(order, resp, listings_per_cycle, PER_MAKE_LIMIT)
        IN  /\ selected' = [selected EXCEPT ![w] = res.selected]
            \* of the cache returned, the parse stage reads the entries of the
            \* selected candidates only
            /\ html_cache' = [html_cache EXCEPT ![w] =
                  [c \in (DOMAIN res.html_cache) \cap SeqRange(res.selected) |-> res.html_cache[c]]]
            /\ prefetch_404' = [prefetch_404 EXCEPT ![w] =
                  IF observe_404 THEN {c \in candidates[w] : resp[c].kind = "404"} ELSE {}]
            /\ pc' = [pc EXCEPT ![w] = IF res.selected = <<>>
                                       THEN NextStage("process") ELSE NextStage("select")]
    /\ UNCHANGED <<now, running, store, failed_scrapes, listings_per_cycle, horizon, run_once, observe_404, components, candidates, reactivated,
                   process_result, swept, failed_at>>

\* _process_candidates: one task of the current batch finishes.
ProcessCandidate(w, e) ==
    /\ pc[w] = "process"
    /\ e \in CurrentBatch(selected[w], process_result[w])
    /\ \E resp \in SiteResponses :
        LET out == process_single_candidate(e, html_cache[w], resp)
            pr == Accumulate(process_result[w], e, out)
            last == pr.processed >= Len(selected[w])
        IN  /\ process_result' = [process_result EXCEPT ![w] = pr]
            /\ pc' = [pc EXCEPT ![w] = IF last THEN NextStage("process") ELSE "process"]
            \* the pool and the page cache are not read after the parse stage
            /\ candidates' = [candidates EXCEPT ![w] = IF last THEN {} ELSE @]
            /\ html_cache' = [html_cache EXCEPT ![w] = IF last THEN EmptyMap ELSE @]
    /\ UNCHANGED <<now, running, store, failed_scrapes, listings_per_cycle, horizon, run_once, observe_404, components, reactivated,
                   selected, prefetch_404, swept, failed_at>>

\* _upsert_listings
UpsertListings(w) ==
    /\ pc[w] = "upsert"
    /\ store' = IF process_result[w].parsed = {} THEN store
                ELSE UpsertStatement(store, process_result[w].parsed, now)
    /\ pc' = [pc EXCEPT ![w] = NextStage("upsert")]
    /\ UNCHANGED <<now, running, listings_per_cycle, horizon, run_once, observe_404, components, locals, failed_at>>

\* _insert_failures
InsertFailures(w) ==
    /\ pc[w] = "failures"
    /\ failed_scrapes' = [failed_scrapes EXCEPT ![w] = @ \cup process_result[w].failed_rows]
    /\ pc' = [pc EXCEPT ![w] = NextStage("failures")]
    /\ UNCHANGED <<now, running, store, listings_per_cycle, horizon, run_once, observe_404, components, candidates, reactivated, selected,
                   html_cache, prefetch_404, process_result, swept, failed_at>>

\* _mark_unavailable
MarkUnavailable(w) ==
    /\ pc[w] = "unavailable"
    /\ store' = IF process_result[w].unavailable_external_ids = {} THEN store
                ELSE MarkUnavailableStatement(store, process_result[w].unavailable_external_ids, now)
    /\ pc' = [pc EXCEPT ![w] = NextStage("unavailable")]
    /\ UNCHANGED <<now, running, listings_per_cycle, horizon, run_once, observe_404, components, locals, failed_at>>

\* _cleanup_stale: the deactivation, then the deletion, in one transaction.
CleanupStale(w) ==
    /\ pc[w] = "cleanup"
    /\ LET deactivated == DeactivateStatement(store, now)
       IN  /\ swept' = [swept EXCEPT ![w] = [deactivated |-> StaleActive(store, now),
                                             deleted |-> DeleteMatches(deactivated, now)]]
           /\ store' = DeleteStatement(deactivated, now)
    /\ pc' = [pc EXCEPT ![w] = NextStage("cleanup")]
    /\ UNCHANGED <<now, running, failed_scrapes, listings_per_cycle, horizon, run_once, observe_404, components, candidates, reactivated, selected,
                   html_cache, prefetch_404, process_result, failed_at>>

\* run_cycle logs its summary and returns to main.
FinishCycle(w) ==
    /\ pc[w] = "summary"
    /\ pc' = [pc EXCEPT ![w] = AfterCycle]
    /\ ResetLocals(w)
    /\ UNCHANGED <<now, running, store, listings_per_cycle, horizon, run_once, observe_404, components, failed_at>>

\* A stage raises: an open transaction is rolled back and the exception
\* leaves run_cycle.
CycleRaises(w) ==
    /\ pc[w] \in CycleStages
    /\ failed_at' = [failed_at EXCEPT ![w] = pc[w]]
    /\ pc' = [pc EXCEPT ![w] = "failed"]
    \* the frame of run_cycle is gone; the pool of a cycle that raised while
    \* fetching is kept to state what that cycle had discovered
    /\ candidates' = [candidates EXCEPT ![w] = IF pc[w] \in {"select", "process"} THEN @ ELSE {}]
    /\ reactivated' = [reactivated EXCEPT ![w] = 0]
    /\ selected' = [selected EXCEPT ![w] = <<>>]
    /\ html_cache' = [html_cache EXCEPT ![w] = EmptyMap]
    /\ prefetch_404' = [prefetch_404 EXCEPT ![w] = {}]
    /\ process_result' = [process_result EXCEPT ![w] = EmptyResult]
    /\ swept' = [swept EXCEPT ![w] = NoSweep]
    /\ UNCHANGED <<now, running, store, failed_scrapes, listings_per_cycle, horizon, run_once, observe_404, components>>

\* main: "except Exception: logger.exception(...)".
CycleFailed(w) ==
    /\ pc[w] = "failed"
    /\ pc' = [pc EXCEPT ![w] = AfterFailure]
    /\ failed_at' = [failed_at EXCEPT ![w] = "none"]
    /\ ResetLocals(w)
    /\ UNCHANGED <<now, running, store, listings_per_cycle, horizon, run_once, observe_404, components>>

Next ==
    \/ Tick
    \/ \E w \in running : StartCycle(w)
    \/ \E w \in running : Discover(w)
    \/ \E w \in running : TouchDiscovered(w)
    \/ \E w \in running : NormalizeExistingTranslations(w)
    \/ \E w \in running : SelectCandidates(w)
    \/ \E w \in running, e \in ExtIds : ProcessCandidate(w, e)
    \/ \E w \in running : UpsertListings(w)
    \/ \E w \in running : InsertFailures(w)
    \/ \E w \in running : MarkUnavailable(w)
    \/ \E w \in running : CleanupStale(w)
    \/ \E w \in running : FinishCycle(w)
    \/ \E w \in running : CycleRaises(w)
    \/ \E w \in running : CycleFailed(w)

Spec == Init /\ [][Next]_vars

(***************************************************************************)
(* HttpClient.get, one transport attempt at a time.                        *)
(***************************************************************************)
worker_vars == <<now, running, store, failed_scrapes, pc, listings_per_cycle, horizon,
                 run_once, observe_404, candidates, reactivated, selected, html_cache,
                 prefetch_404, process_result, swept, failed_at>>

RequestedHosts == {h \in Hosts : h.name # ""}

\* get(url, allow_404=...) is called.
HttpGet(h, allow_404) ==
    /\ http.pc = "idle"
    /\ http' = [HttpIdle EXCEPT !.pc = "attempt", !.url = h, !.allow_404 = allow_404,
                                !.target = h, !.run = 1, !.attempt = 1]
    /\ UNCHANGED <<worker_vars, sel, disc, prs>>

\* One pass of "for attempt in range(1, MAX_RETRIES + 1)", and what get
\* does when _request_with_retries returns or raises.
HttpAttempt(out) ==
    /\ http.pc = "attempt"
    /\ LET res == AttemptResult(out, http.allow_404)
           sent == Append(http.trace, [run |-> http.run, host |-> http.target,
                                       attempt |-> http.attempt, out |-> out])
           fallback_url == build_fallback_url(http.url)
       IN  http' =
             IF res.kind = "response"
             THEN [http EXCEPT !.pc = "returned", !.trace = sent, !.result = res]
             ELSE IF ~LeavesLoop(res, http.attempt)
             THEN [http EXCEPT !.attempt = @ + 1, !.trace = sent]
             ELSE IF http.run = 1 /\ res.error_kind = "dns" /\ fallback_url # NoUrl
             THEN [http EXCEPT !.run = 2, !.target = fallback_url, !.attempt = 1,
                               !.trace = sent]
             ELSE [http EXCEPT !.pc = "raised", !.trace = sent, !.result = res]
    /\ UNCHANGED <<worker_vars, sel, disc, prs>>

NextClient ==
    \/ \E h \in RequestedHosts, allow_404 \in BOOLEAN : HttpGet(h, allow_404)
    \/ \E out \in TransportOutcomes : HttpAttempt(out)

InitClient == InitWith({}, MAX_LISTINGS, 0, TRUE, FALSE)
SpecClient == InitClient /\ [][NextClient]_vars
\* Every transport attempt ends: the session is given a connect and a read
\* timeout.
SpecClientFair == SpecClient /\ WF_vars(NextClient)

(***************************************************************************)
(* select_candidates_by_make, called on its own.  The shuffled pool is the *)
(* sequence 1..n; what each prefetch ends with is drawn for every position,*)
(* so every order of makes and failures is covered.                        *)
(***************************************************************************)
SelectorResponses ==
    {r \in PageResponses : r.body \in {"toyota", "bmw", "ended"}}
    \cup {NotFoundResponse}
    \cup {r \in ErrorResponses : r.kind = "timeout"}

PageOf(b) == CHOOSE r \in PageResponses : r.body = b

SmallPoolInputs ==
    UNION {{[sampling_candidates |-> [i \in 1..n |-> i], resp |-> f,
             max_listings |-> ml, per_make_limit |-> cap] :
               f \in [1..n -> SelectorResponses], ml \in 0..MaxPool, cap \in 1..MaxCap} :
           n \in 0..MaxPool}

\* Pools larger than the prefetch target: one BMW among Toyotas.
LargePoolSize == PrefetchSlackMin + MaxPool
LargePoolInputs ==
    {[sampling_candidates |-> [i \in 1..LargePoolSize |-> i],
      resp |-> [i \in 1..LargePoolSize |-> IF i = p THEN PageOf("bmw") ELSE PageOf("toyota")],
      max_listings |-> 2, per_make_limit |-> 1] : p \in 1..LargePoolSize}

SelectorCall(inp) ==
    /\ sel.pc = "idle"
    /\ sel' = [pc |-> "done",
               sampling_candidates |-> inp.sampling_candidates,
               resp |-> inp.resp,
               max_listings |-> inp.max_listings,
               per_make_limit |-> inp.per_make_limit,
               result |-> select_candidates_by_make(inp.sampling_candidates, inp.resp,
                                                    inp.max_listings, inp.per_make_limit)]
    /\ UNCHANGED <<worker_vars, http, disc, prs>>

NextSelector ==
    \/ sel.pc = "idle" /\ \E inp \in SmallPoolInputs : SelectorCall(inp)
    \/ sel.pc = "idle" /\ \E inp \in LargePoolInputs : SelectorCall(inp)

InitSelector == InitWith({}, MAX_LISTINGS, 0, TRUE, FALSE)
SpecSelector == InitSelector /\ [][NextSelector]_vars

(***************************************************************************)
(* discover_candidates, called on its own.  The answer to the request for  *)
(* each detail sitemap is drawn when the call starts: a document with its  *)
(* <url> nodes, a request that fails (HttpRequestError) or a body that is  *)
(* not XML (ET.ParseError).  robots.txt only chooses the address of the    *)
(* index and is left out.                                                  *)
(***************************************************************************)
SitemapHttpError == 0 - 1
SitemapParseError == 0 - 2
SitemapAnswers(k) ==
    IF k = SitemapHttpError THEN {[kind |-> "http_error", urls |-> <<>>]}
    ELSE IF k = SitemapParseError THEN {[kind |-> "parse_error", urls |-> <<>>]}
    ELSE {[kind |-> "xml", urls |-> u] : u \in [1..k -> UrlNodes]}

\* For each sitemap of the index, a failure or a number of <url> nodes.
RECURSIVE NodesIn(_)
NodesIn(profile) ==
    IF profile = <<>> THEN 0 ELSE Max(0, Head(profile)) + NodesIn(Tail(profile))
IndexProfiles ==
    UNION {{q \in [1..n -> SitemapParseError..MaxEntriesPerSitemap] : NodesIn(q) <= MaxEntriesTotal} :
           n \in 0..MaxSitemaps}

RECURSIVE IndexesOf(_)
IndexesOf(profile) ==
    IF profile = <<>> THEN {<<>>}
    ELSE {<<d>> \o rest : d \in SitemapAnswers(Head(profile)), rest \in IndexesOf(Tail(profile))}

\* A clause that lets an unparsable body propagate.
HandledFailures_HttpOnly == {"http_error"}

\* "except (HttpRequestError, ET.ParseError)" around one sitemap.
HandledFailures == {"http_error", "parse_error"}

Batch(offset, n) == {i \in 1..n : offset < i /\ i <= offset + CONCURRENCY}

\* discover_candidates up to the first batch of requests.
discover_candidates(index) ==
    /\ disc.pc = "idle"
    /\ LET detail_sitemaps == SubSeq(index, 1, Min(MAX_SITEMAPS, Len(index)))
           n == Len(detail_sitemaps)
       IN  disc' = IF n = 0
                   THEN [disc EXCEPT !.pc = "done", !.result = CandidatePool(<<>>)]
                   ELSE [disc EXCEPT !.pc = "fetching",
                                     !.detail_sitemaps = detail_sitemaps,
                                     !.pending = Batch(0, n),
                                     !.clock = MaxLastmod,
                                     !.parsed = [i \in 1..n |-> <<>>]]
    /\ UNCHANGED <<worker_vars, http, sel, prs>>

\* client.get(sitemap_index_url) raises: discover_candidates raises.
DiscoverIndexFails ==
    /\ disc.pc = "idle"
    /\ disc' = [disc EXCEPT !.pc = "raised"]
    /\ UNCHANGED <<worker_vars, http, sel, prs>>

\* One turn of "for future in as_completed(future_to_url)" for sitemap i; the
\* last turn of the last batch goes on to the sort and the truncation.
CompleteSitemap(i) ==
    /\ disc.pc = "fetching"
    /\ i \in disc.pending
    /\ LET doc == disc.detail_sitemaps[i]
           n == Len(disc.detail_sitemaps)
           ok == doc.kind = "xml"
           all == parse_detail_sitemap(doc.urls, disc.clock)
           parsed == IF ok THEN SubSeq(all, 1, Min(per_sitemap_cap(n), Len(all))) ELSE <<>>
           by_url == MergeAll(disc.by_url, parsed)
           pending == disc.pending \ {i}
           more == disc.offset + CONCURRENCY < n
           after == [disc EXCEPT !.by_url = by_url,
                                 !.parsed[i] = parsed,
                                 !.clock = IF ok THEN @ + 1 ELSE @,
                                 !.processed_sitemaps = IF ok THEN @ + 1 ELSE @,
                                 !.failed_sitemaps = IF ok THEN @ ELSE @ + 1,
                                 !.pending = pending]
       IN  disc' = IF ~ok /\ doc.kind \notin HandledFailures
                   THEN [disc EXCEPT !.pc = "raised", !.pending = {}]
                   ELSE IF pending # {} THEN after
                   ELSE IF more
                   THEN [after EXCEPT !.offset = @ + CONCURRENCY,
                                      !.pending = Batch(disc.offset + CONCURRENCY, n)]
                   ELSE [after EXCEPT !.pc = "done", !.result = CandidatePool(by_url)]
    /\ UNCHANGED <<worker_vars, http, sel, prs>>

NextDiscovery ==
    \/ /\ disc.pc = "idle"
       /\ \E profile \in IndexProfiles : \E index \in IndexesOf(profile) :
             discover_candidates(index)
    \/ DiscoverIndexFails
    \/ \E i \in 1..MaxSitemaps : CompleteSitemap(i)

InitDiscovery == InitWith({}, MAX_LISTINGS, 0, TRUE, FALSE)
SpecDiscovery == InitDiscovery /\ [][NextDiscovery]_vars

(***************************************************************************)
(* parse_listing_html, called on its own, on pages that vary the spec      *)
(* boxes and on pages that vary the price nodes.                           *)
(***************************************************************************)
YearTexts ==
    {<<>>, <<"2", "0", "1", "1">>, <<"1", "9", "9", "8">>, <<"1", "8", "9", "9">>,
     <<"era", "3">>, <<"era", "2", "0", "1", "8", "era">>}
SpecBoxes == [title : {"year", "mileage", ""}, num : YearTexts]
SpecBoxLists == UNION {[1..n -> SpecBoxes] : n \in 0..MaxBoxes}
RowLists == {<<>>, <<[key |-> "year", value |-> <<"2", "0", "1", "1">>]>>}

IntParts ==
    {<<>>, <<"0">>, <<"8", "0">>, <<"1", ",", "2", "3", "4">>, <<"9", "0", "0", "0">>,
     <<"9", "9", "9", "9">>, <<"1", "0", "0", "0", "0">>}
FracParts == {<<>>, <<".">>, <<".", "0">>, <<".", "9">>, <<".", "0", "0", "0", "0", "5">>}
UnitParts == {<<>>, <<"man">>, <<"man", "yen">>, <<"yen">>, <<"ask">>}
Contents == {<<>>, <<"1", "2", "3">>, <<"1", "5", "0", "0", "0", "0", "0">>}
BaseNodes ==
    {NoNode} \cup {[present |-> TRUE, text |-> i \o f \o u, content |-> c] :
                      i \in IntParts, f \in FracParts, u \in UnitParts, c \in Contents}
TotalNodes ==
    {NoNode} \cup {[present |-> TRUE, text |-> i \o u, content |-> c] :
                      i \in IntParts, u \in {<<"man", "yen">>, <<"ask">>},
                      c \in {<<>>, <<"1", "2", "3">>}}

ManyenNode(int) == [present |-> TRUE, text |-> int \o <<"man", "yen">>, content |-> <<>>]
YearPages ==
    {[final |-> f, marker |-> m, boxes |-> b, rows |-> r,
      base |-> ManyenNode(<<"8", "0">>), total |-> NoNode] :
        f \in {"detail", "search"}, m \in BOOLEAN, b \in SpecBoxLists, r \in RowLists}
PricePages ==
    {[final |-> "detail", marker |-> FALSE,
      boxes |-> <<[title |-> "year", num |-> <<"2", "0", "1", "1">>]>>, rows |-> <<>>,
      base |-> b, total |-> t] : b \in BaseNodes, t \in TotalNodes}

ParseCall(page) ==
    /\ prs.pc = "idle"
    /\ prs' = [pc |-> "done", page |-> page, result |-> parse_listing_fields(page, 1)]
    /\ UNCHANGED <<worker_vars, http, sel, disc>>

NextParser ==
    \/ prs.pc = "idle" /\ \E page \in YearPages : ParseCall(page)
    \/ prs.pc = "idle" /\ \E page \in PricePages : ParseCall(page)

InitParser == InitWith({}, MAX_LISTINGS, 0, TRUE, FALSE)
SpecParser == InitParser /\ [][NextParser]_vars

\* One worker in either mode, WORKER_RUN_ONCE set or not, that is scheduled
\* as long as it has a step to take.
InitModes == \E once \in BOOLEAN : InitWith({1}, MAX_LISTINGS, MaxTimeModes, once, FALSE)
SpecModes == InitModes /\ [][Next]_vars /\ WF_vars(Next)

\* The same worker, with the 404 answers of the prefetch recorded.
(***************************************************************************)
(* _touch_discovered on a table that earlier cycles have filled.  The rows *)
(* it meets carry, besides the columns of the rows above, the columns       *)
(* model, price_jpy and scraped_at that _upsert_listings writes             *)
(* (worker.py 254-271); a row is a placeholder that was never parsed or a   *)
(* parsed listing, seen under the present URL or an older one, Active or    *)
(* flagged unavailable.                                                     *)
(***************************************************************************)
OldUrlOf(e) == <<"/usedcar/detail", e, "">>
StoredRows(e) ==
    {[source |-> SOURCE_NAME, external_id |-> e, url |-> u,
      maker |-> d.maker, model |-> d.model, year |-> d.year, price_jpy |-> d.price_jpy,
      scraped_at |-> sc, last_seen_at |-> ls,
      is_active |-> act, deleted_at |-> IF act THEN Null ELSE ls] :
        u \in {UrlOf(e), OldUrlOf(e)},
        d \in {[maker |-> "Unknown", model |-> "Unknown", year |-> Null, price_jpy |-> Null],
               [maker |-> "Toyota", model |-> "Prius", year |-> 2011, price_jpy |-> 1000]},
        sc \in 0..(MaxTimeTouch - 1), ls \in 0..(MaxTimeTouch - 1), act \in BOOLEAN}
StoredTables ==
    {UNION {f[e] : e \in ExtIds} :
        f \in [ExtIds -> {{}} \cup {{r} : r \in UNION {StoredRows(e) : e \in ExtIds}}]}

InitTouch ==
    /\ now = MaxTimeTouch
    /\ running = {1}
    /\ store \in {st \in StoredTables :
                    \A e \in ExtIds : Cardinality(RowsOf(st, e)) <= 1}
    /\ failed_scrapes = [w \in Workers |-> {}]
    /\ pc = [w \in Workers |-> IF w = 1 THEN "touch" ELSE "idle"]
    /\ listings_per_cycle = MAX_LISTINGS
    /\ horizon = MaxTimeTouch
    /\ run_once = TRUE
    /\ observe_404 = FALSE
    /\ \E pool \in (SUBSET ExtIds) \ {{}} : candidates = [w \in Workers |-> IF w = 1 THEN pool ELSE {}]
    /\ reactivated = [w \in Workers |-> 0]
    /\ selected = [w \in Workers |-> <<>>]
    /\ html_cache = [w \in Workers |-> EmptyMap]
    /\ prefetch_404 = [w \in Workers |-> {}]
    /\ process_result = [w \in Workers |-> EmptyResult]
    /\ swept = [w \in Workers |-> NoSweep]
    /\ failed_at = [w \in Workers |-> "none"]
    /\ http = HttpIdle
    /\ sel = SelectorIdle
    /\ disc = DiscoveryIdle
    /\ prs = ParserIdle

NextTouch == \E w \in running : TouchDiscovered(w)
SpecTouch == InitTouch /\ [][NextTouch]_vars

(***************************************************************************)
(* _process_candidates on its own, on a selection that takes more than one *)
(* batch of the pool.  The selection is any sequence of distinct           *)
(* candidates (the selector returns no candidate twice); the cache holds   *)
(* the pages a prefetch has fetched for some of them.                      *)
(***************************************************************************)
ProcessIds == 1..(CONCURRENCY + 1)
Selections ==
    UNION {{q \in [1..n -> ProcessIds] : \A i, j \in 1..n : q[i] = q[j] => i = j} :
           n \in 1..(CONCURRENCY + 1)}
CachedPages(sl) ==
    UNION {[S -> {"toyota", "ended"}] : S \in SUBSET SeqRange(sl)}

InitProcess ==
    /\ now = 0
    /\ running = {1}
    /\ store = {}
    /\ failed_scrapes = [w \in Workers |-> {}]
    /\ pc = [w \in Workers |-> IF w = 1 THEN "process" ELSE "idle"]
    /\ listings_per_cycle = CONCURRENCY + 1
    /\ horizon = 1
    /\ run_once = TRUE
    /\ observe_404 = FALSE
    /\ \E sl \in Selections :
          /\ selected = [w \in Workers |-> IF w = 1 THEN sl ELSE <<>>]
          /\ candidates = [w \in Workers |-> IF w = 1 THEN SeqRange(sl) ELSE {}]
          /\ \E cache \in CachedPages(sl) :
                html_cache = [w \in Workers |-> IF w = 1 THEN cache ELSE EmptyMap]
    /\ reactivated = [w \in Workers |-> 0]
    /\ prefetch_404 = [w \in Workers |-> {}]
    /\ process_result = [w \in Workers |-> EmptyResult]
    /\ swept = [w \in Workers |-> NoSweep]
    /\ failed_at = [w \in Workers |-> "none"]
    /\ http = HttpIdle
    /\ sel = SelectorIdle
    /\ disc = DiscoveryIdle
    /\ prs = ParserIdle

NextProcess ==
    \/ Tick
    \/ \E w \in running, e \in ProcessIds : ProcessCandidate(w, e)
SpecProcess == InitProcess /\ [][NextProcess]_vars

InitObserved == InitWith({1}, MAX_LISTINGS, MaxTime, FALSE, TRUE)
SpecObserved == InitObserved /\ [][Next]_vars

\* Two worker processes in run-once mode against the same database.
InitConcurrent == InitWith({1, 2}, MAX_LISTINGS, MaxTimeConcurrent, TRUE, FALSE)
SpecConcurrent == InitConcurrent /\ [][Next]_vars

(***************************************************************************)
(* Properties of the listing lifecycle.                                    *)
(***************************************************************************)
\* The failure kinds _process_single_candidate and parse_listing_html
\* report with unavailable = False.
OrdinaryFailureTypes == {"missing_year", "http_error"}

\* C1: a row leaves the table only through the DELETE of a sweep, and every
\* row that DELETE removes has is_active = false when it is removed.
C1_DeleteOnlyInactive ==
    [][\A r \in store :
          ~HasRow(store', r.external_id) =>
              \E w \in running :
                  /\ pc[w] = "cleanup" /\ pc'[w] = "summary"
                  /\ \E d \in swept'[w].deleted :
                        d.external_id = r.external_id /\ ~d.is_active]_vars

C1_Witness ==
    \E w \in running : pc[w] = "summary" /\ swept[w].deleted # {}

\* C2 as stated: a row a sweep deletes had been Inactive for at least
\* DELETE_AFTER_DAYS when it was deleted, and was not Active when that sweep
\* started.
C2_DeletedAfterRetentionAsInactive ==
    \A w \in running :
        pc[w] = "summary" =>
            \A d \in swept[w].deleted :
                /\ d.deleted_at # Null
                /\ now - d.deleted_at >= DELETE_AFTER_DAYS
                /\ d.external_id \notin {r.external_id : r \in swept[w].deactivated}

\* C2: a row leaves the table only when its last_seen_at is older than the
\* retention threshold; the retention is counted from last_seen_at, so a row
\* flagged unavailable (last_seen_at = deleted_at) is kept for more than
\* DELETE_AFTER_DAYS as Inactive, while a stale Active row can be deactivated
\* and deleted by one sweep.
C2_DeletedAfterRetentionSinceSeen ==
    [][\A r \in store :
          ~HasRow(store', r.external_id) =>
              /\ r.last_seen_at < now - DELETE_AFTER_DAYS
              /\ (~r.is_active /\ r.deleted_at = r.last_seen_at) =>
                    now - r.deleted_at > DELETE_AFTER_DAYS]_vars

\* One sweep deactivated a row and deleted it.
C2_Witness ==
    \E w \in running :
        /\ pc[w] = "summary"
        /\ \E d \in swept[w].deleted :
              /\ d.external_id \in {r.external_id : r \in swept[w].deactivated}
              /\ ~HasRow(store, d.external_id)

\* C3: right after a sweep no Active row has last_seen_at older than the
\* inactivity threshold (the rows that had are Inactive with deleted_at the
\* time of the sweep, or gone) and no Inactive row has last_seen_at older
\* than the retention threshold.
C3_SweepPostcondition ==
    \A w \in running :
        pc[w] = "summary" =>
            /\ \A r \in store :
                  r.source = SOURCE_NAME =>
                      /\ ~(r.is_active /\ r.last_seen_at < now - INACTIVE_AFTER_DAYS)
                      /\ ~(~r.is_active /\ r.last_seen_at < now - DELETE_AFTER_DAYS)
            /\ \A d \in swept[w].deactivated :
                  \A r \in RowsOf(store, d.external_id) :
                      ~r.is_active /\ r.deleted_at = now

C3_Witness ==
    \E w \in running :
        /\ pc[w] = "summary"
        /\ \E d \in swept[w].deactivated : HasRow(store, d.external_id)
        /\ swept[w].deleted # {}

\* C4: with several workers writing, the table holds at most one row for a
\* (source, external_id) pair.
C4_UniqueKey ==
    \A e \in ExtIds : Cardinality(RowsOf(store, e)) <= 1

\* Worker 1 has upserted a listing worker 2 has touched and is still working on.
C4_Witness ==
    /\ running = {1, 2}
    /\ pc[1] = "failures"
    /\ pc[2] \in {"normalize", "select", "process"}
    /\ \E row \in process_result[1].parsed :
          /\ row.external_id \in candidates[2]
          /\ Cardinality(RowsOf(store, row.external_id)) = 1

\* C5: from any table the worker can produce, two upserts in a row of the
\* same parsed listing (the second not earlier than the first) leave one
\* row for it, Active, deleted_at null, with the fields of the first upsert
\* and a last_seen_at not earlier than the first upsert's.
C5_UpsertIdempotent ==
    \A e \in ExtIds, make \in {"Toyota", "Unknown"}, t2 \in now..horizon :
        LET listing == ListingData(e, make, 2011)
            first   == UpsertStatement(store, {listing}, now)
            second  == UpsertStatement(first, {listing}, t2)
            r1      == TheRow(first, e)
            r2      == TheRow(second, e)
        IN  /\ Cardinality(RowsOf(first, e)) = 1
            /\ Cardinality(RowsOf(second, e)) = 1
            /\ r2.is_active /\ r2.deleted_at = Null
            /\ r2.url = r1.url /\ r2.maker = r1.maker /\ r2.year = r1.year
            /\ r2.last_seen_at >= r1.last_seen_at
            /\ {r \in second : r.external_id # e} = {r \in store : r.external_id # e}

\* An Inactive row is in the table while a cycle is about to upsert.
C5_Witness ==
    \E w \in running :
        /\ pc[w] = "upsert"
        /\ process_result[w].parsed # {}
        /\ \E r \in store : ~r.is_active /\ r.deleted_at # Null

\* C6: right after the touch, every discovered listing has a row that is
\* Active with deleted_at null and last_seen_at the time of the touch,
\* whatever the row was before.
C6_TouchReactivates ==
    \A w \in running :
        pc[w] = "normalize" =>
            \A e \in candidates[w] :
                /\ Cardinality(RowsOf(store, e)) = 1
                /\ TheRow(store, e).is_active
                /\ TheRow(store, e).deleted_at = Null
                /\ TheRow(store, e).last_seen_at = now

C6_Witness ==
    \E w \in running : pc[w] = "normalize" /\ reactivated[w] > 0

\* C7: while a cycle prefetches or parses, and after it raised there, every
\* listing it discovered has a row.
C7_TouchBeforeFetch ==
    \A w \in running :
        (\/ pc[w] \in {"select", "process"}
         \/ pc[w] = "failed" /\ failed_at[w] \in {"select", "process"}) =>
            /\ candidates[w] # {}
            /\ \A e \in candidates[w] : HasRow(store, e)

C7_Witness ==
    \E w \in running :
        /\ pc[w] = "failed" /\ failed_at[w] = "process"
        /\ candidates[w] # {}
        /\ \A e \in candidates[w] : HasRow(store, e)

\* C8: from the parse stage to the start of the sweep, the row of a
\* candidate that failed with an ordinary (not unavailable) failure does not
\* change, and _insert_failures adds exactly one record for it.
C8_OrdinaryFailureKeepsRow ==
    [][\A w \in running :
          pc[w] \in {"process", "upsert", "failures", "unavailable"} =>
              \A f \in process_result[w].failed_rows :
                  f.error_type \in OrdinaryFailureTypes =>
                      /\ RowsOf(store', f.source_listing_id) = RowsOf(store, f.source_listing_id)
                      /\ (pc[w] = "failures" /\ pc'[w] = "unavailable") =>
                            /\ {x \in failed_scrapes[w] :
                                  x.source_listing_id = f.source_listing_id} = {}
                            /\ {x \in failed_scrapes'[w] :
                                  x.source_listing_id = f.source_listing_id} = {f}]_vars

C8_Witness ==
    \E w \in running :
        /\ pc[w] = "cleanup"
        /\ \E f \in failed_scrapes[w] :
              /\ f.error_type \in OrdinaryFailureTypes
              /\ HasRow(store, f.source_listing_id)
              /\ TheRow(store, f.source_listing_id).is_active

\* C9: at the end of a completed cycle, every listing the parse stage
\* reported unavailable has a row that is Inactive with deleted_at set.
C9_UnavailableEndsInactive ==
    \A w \in running :
        pc[w] = "summary" =>
            \A e \in process_result[w].unavailable_external_ids :
                /\ HasRow(store, e)
                /\ \A r \in RowsOf(store, e) : ~r.is_active /\ r.deleted_at # Null

C9_Witness ==
    \E w \in running :
        /\ pc[w] = "summary"
        /\ \E f \in process_result[w].failed_rows :
              /\ f.error_type = "listing_unavailable"
              /\ f.source_listing_id \in process_result[w].unavailable_external_ids

\* C10 as stated: at the end of a completed cycle, every listing whose page
\* fetch returned HTTP 404 in the prefetch or in the parse stage has a row
\* that is Inactive with deleted_at set.
C10_Any404EndsInactive ==
    \A w \in running :
        pc[w] = "summary" =>
            \A e \in prefetch_404[w]
                     \cup {f.source_listing_id :
                             f \in {x \in process_result[w].failed_rows :
                                      x.error_type = "http_404"}} :
                /\ HasRow(store, e)
                /\ \A r \in RowsOf(store, e) : ~r.is_active /\ r.deleted_at # Null

\* C10: at the end of a completed cycle, every listing whose parse-stage
\* fetch returned HTTP 404 has a row that is Inactive with deleted_at set.
C10_Parse404EndsInactive ==
    \A w \in running :
        pc[w] = "summary" =>
            \A f \in process_result[w].failed_rows :
                (f.error_type = "http_404" /\ f.status_code = 404) =>
                    /\ HasRow(store, f.source_listing_id)
                    /\ \A r \in RowsOf(store, f.source_listing_id) :
                          ~r.is_active /\ r.deleted_at # Null

C10_Witness ==
    \E w \in running :
        /\ pc[w] = "summary"
        /\ \E f \in process_result[w].failed_rows : f.error_type = "http_404"
        /\ \E e \in prefetch_404[w] : HasRow(store, e) /\ TheRow(store, e).is_active

C12_EveryCycleSweeps ==
    [][\A w \in running :
          (pc[w] \in CycleStages \cup {"summary"} /\ pc'[w] = AfterCycle) =>
              pc[w] = "summary"]_vars

(***************************************************************************)
(* Properties of HttpClient.                                               *)
(***************************************************************************)
\* C13: in one run against one host, an attempt that ends in HTTP >= 500, a
\* timeout or a non-DNS connection error is followed by the next attempt of
\* the same run while fewer than MAX_RETRIES attempts were made, a run makes
\* at most MAX_RETRIES attempts, and an attempt that ends in HTTP 4xx (a 404
\* with allow_404 aside) is the last one: get raises http_4xx.
C13_RetryBudget ==
    LET tr == http.trace
        n  == Len(tr)
        Retried(o) == \/ o.kind \in {"timeout", "connection"}
                      \/ o.kind = "response" /\ o.status >= 500
        Fatal(o)   == /\ o.kind = "response"
                      /\ o.status >= 400 /\ o.status < 500
                      /\ ~(o.status = 404 /\ http.allow_404)
    IN  \A i \in 1..n :
            /\ tr[i].attempt >= 1 /\ tr[i].attempt <= MAX_RETRIES
            /\ \A j \in 1..n : (i < j /\ tr[i].run = tr[j].run) => tr[i].attempt < tr[j].attempt
            /\ (Retried(tr[i].out) /\ tr[i].attempt < MAX_RETRIES) =>
                  IF i < n
                  THEN /\ tr[i + 1].run = tr[i].run
                       /\ tr[i + 1].host = tr[i].host
                       /\ tr[i + 1].attempt = tr[i].attempt + 1
                  ELSE /\ http.pc = "attempt"
                       /\ http.run = tr[i].run
                       /\ http.target = tr[i].host
                       /\ http.attempt = tr[i].attempt + 1
            /\ (Retried(tr[i].out) /\ tr[i].attempt = MAX_RETRIES) =>
                  i = n /\ http.pc = "raised"
            /\ Fatal(tr[i].out) =>
                  /\ i = n
                  /\ http.pc = "raised"
                  /\ http.result.error_kind = "http_4xx"

\* A run used up its budget on retryable failures.
C13_Witness ==
    /\ http.pc = "raised"
    /\ Len(http.trace) = MAX_RETRIES
    /\ http.trace[1].out.kind = "timeout"
    /\ http.result.error_kind = "http_5xx"

\* C14 as stated: after a DNS error on a carsensor.net host, get sends no
\* further request to that host and exactly one request to the host with
\* the www. prefix toggled, raising if that request fails; for a host
\* outside carsensor.net no fallback request is sent.
C14_SingleFallbackRequest ==
    LET tr == http.trace
        n  == Len(tr)
        fallback == {j \in 1..n : tr[j].run = 2}
        target_domain == http.url.name = "carsensor.net"
    IN  /\ ~target_domain => fallback = {}
        /\ Cardinality(fallback) <= 1
        /\ \A i \in 1..n :
              (tr[i].run = 1 /\ tr[i].out.kind = "dns" /\ target_domain) =>
                  /\ \A j \in 1..n : j > i => tr[j].host # tr[i].host
                  /\ \A j \in fallback : tr[j].host = [http.url EXCEPT !.www = ~@]
                  /\ http.pc \in {"returned", "raised"} => Cardinality(fallback) = 1
                  /\ \A j \in fallback :
                        AttemptResult(tr[j].out, http.allow_404).kind = "error" =>
                            http.pc = "raised"

\* C14: a DNS error ends the run on the requested host.  When the host name
\* contains carsensor.net, get starts one second run on the host with the
\* www. prefix toggled; that run has its own budget of MAX_RETRIES attempts,
\* all on the toggled host, and its failure (a DNS error included) is
\* raised with no third run.  Otherwise no fallback request is sent and the
\* DNS error is raised.
C14_SingleFallbackRun ==
    LET tr == http.trace
        n  == Len(tr)
        fallback == {j \in 1..n : tr[j].run = 2}
        contains_domain == http.url.name \in {"carsensor.net", "carsensor.net.example.org"}
    IN  /\ \A j \in 1..n : tr[j].run \in {1, 2}
        /\ \A j \in fallback :
              /\ tr[j].host = [http.url EXCEPT !.www = ~@]
              /\ tr[j].attempt <= MAX_RETRIES
              /\ \E i \in 1..n : i < j /\ tr[i].run = 1 /\ tr[i].out.kind = "dns"
        /\ \A i \in 1..n :
              tr[i].out.kind = "dns" =>
                 IF tr[i].run = 1 /\ contains_domain
                 THEN /\ tr[i].host = http.url
                      /\ \A j \in 1..n : j > i => j \in fallback
                      /\ IF i = n
                         THEN http.pc = "attempt" /\ http.run = 2 /\ http.attempt = 1
                              /\ http.target = [http.url EXCEPT !.www = ~@]
                         ELSE TRUE
                 ELSE /\ i = n
                      /\ http.pc = "raised"
                      /\ http.result.error_kind = "dns"

\* The fallback run retried and failed.
C14_Witness ==
    /\ http.pc = "raised"
    /\ Cardinality({j \in 1..Len(http.trace) : http.trace[j].run = 2}) = MAX_RETRIES
    /\ http.trace[1].out.kind = "dns"

\* C15: a call of get makes at most 2 x MAX_RETRIES transport attempts and
\* ends: it returns a response, or raises an HttpRequestError whose
\* error_kind is timeout, connection, dns, http_4xx or http_5xx.
C15_GetTerminatesTyped ==
    /\ [](/\ Len(http.trace) <= 2 * MAX_RETRIES
          /\ http.pc = "attempt" => Len(http.trace) < 2 * MAX_RETRIES
          /\ http.pc = "returned" => http.result.kind = "response"
          /\ http.pc = "raised" =>
                /\ http.result.kind = "error"
                /\ http.result.error_kind \in
                      {"timeout", "connection", "dns", "http_4xx", "http_5xx"})
    /\ (http.pc = "attempt") ~> (http.pc \in {"returned", "raised"})

\* get used both budgets in full and raised a connection error.
C15_Witness ==
    /\ http.pc = "raised"
    /\ Len(http.trace) = 2 * MAX_RETRIES
    /\ http.result.error_kind = "connection"

(***************************************************************************)
(* Claims on the candidate selector.                                       *)
(***************************************************************************)
\* The make a candidate's page shows: "none" when the prefetch of the
\* candidate does not end with a page, or the page's title names no make.
PageMake(c) ==
    IF sel.resp[c].kind = "page" THEN quick_extract_make(sel.resp[c].body) ELSE "none"

PoolMakes == {PageMake(c) : c \in SeqRange(sel.sampling_candidates)}
PoolOfMake(m) == {c \in SeqRange(sel.sampling_candidates) : PageMake(c) = m}
SelectedOfMake(m) == {c \in SeqRange(sel.result.selected) : PageMake(c) = m}

\* The pool of the distribution property: every candidate's page shows a make,
\* every make has at least per_make_limit candidates, and the target is
\* (number of makes) x per_make_limit.
BalancedPool ==
    /\ sel.pc = "done"
    /\ sel.sampling_candidates # <<>>
    /\ "none" \notin PoolMakes
    /\ \A m \in PoolMakes : Cardinality(PoolOfMake(m)) >= sel.per_make_limit
    /\ sel.max_listings = Cardinality(PoolMakes) * sel.per_make_limit

ExactQuota == \A m \in PoolMakes : Cardinality(SelectedOfMake(m)) = sel.per_make_limit

\* C16 as stated: for every pool size, a pool with at least per_make_cap
\* candidates of each of N makes and target_count = N x per_make_cap yields
\* exactly per_make_cap selected candidates of each make.
C16_ExactQuotaAnyPoolSize == BalancedPool => ExactQuota

\* C16 amended: the same holds when the pool is no larger than the prefetch
\* target, target_count + max(100, 30 x per_make_cap), so that every
\* candidate's make is learnt before grouping.
C16_ExactQuotaWithinPrefetch ==
    (/\ BalancedPool
     /\ Len(sel.sampling_candidates)
          <= sel.max_listings
             + Max(PrefetchSlackMin, sel.per_make_limit * PrefetchSlackPerMake))
    => ExactQuota

C16_Witness ==
    /\ BalancedPool
    /\ Cardinality(PoolMakes) = 2
    /\ sel.per_make_limit = 2
    /\ Len(sel.sampling_candidates) = 4
    /\ PageMake(1) = PageMake(2)
    /\ ExactQuota

\* The prefetch of the call recorded in sel, and the candidates whose make it
\* determined: those it fetched and whose page title names a make.
SelPrefetched ==
    Prefetched(sel.sampling_candidates, sel.resp, sel.max_listings, sel.per_make_limit)
Determined == {c \in DOMAIN SelPrefetched.make_by_url : PageMake(c) # "none"}
Undetermined == SeqRange(sel.sampling_candidates) \ Determined
SelectedPos(c) == CHOOSE i \in 1..Len(sel.result.selected) : sel.result.selected[i] = c

\* C17 as stated: a candidate whose make could not be determined (not
\* fetched, fetch failed, 404, or fetched with no make in the title) is
\* selected only in the final fill: after every candidate with a known make,
\* all of which are then selected, and it is not counted under any make.
C17_UndeterminedOnlyInFinalFill ==
    (sel.pc = "done" /\ sel.max_listings > 0) =>
        /\ \A c \in Undetermined \cap SeqRange(sel.result.selected) :
              /\ Determined \subseteq SeqRange(sel.result.selected)
              /\ \A d \in Determined : SelectedPos(d) < SelectedPos(c)
        /\ "Unknown" \notin DOMAIN sel.result.distribution

\* The state at the end of the round-robin loop of the call recorded in sel.
SelMakes == {SelPrefetched.make_by_url[c] : c \in DOMAIN SelPrefetched.make_by_url}
SelRoundRobin ==
    RoundRobin(GroupedStart(sel.sampling_candidates, SelPrefetched.make_by_url),
               MakeOrder(SelMakes), sel.max_listings, sel.per_make_limit)

MakeRank(m) == CHOOSE i \in 1..Len(MakeNames) : MakeNames[i] = m
\* The make under which the i-th selected candidate was grouped, and how
\* many candidates of that make were selected up to and including it.
SelectedMake(i) == SelPrefetched.make_by_url[sel.result.selected[i]]
SelectedRound(i) ==
    Cardinality({j \in 1..i : j \in 1..Len(SelRoundRobin.selected)
                                /\ SelectedMake(j) = SelectedMake(i)})

\* C18: in the round-robin part of the selection every round takes at most
\* one candidate per make, in alphabetical order of the makes; a make's final
\* count exceeds per_make_limit only when the round-robin stopped short of
\* max_listings with every make at the cap or out of candidates; and when
\* the round-robin reaches max_listings no make is over the cap and the
\* makes that still have candidates differ by at most one.
C18_RoundRobinFair ==
    (sel.pc = "done" /\ sel.max_listings > 0) =>
        LET rr  == SelRoundRobin
            n   == Len(rr.selected)
            out == sel.result
            Count(m) == IF m \in DOMAIN out.distribution THEN out.distribution[m] ELSE 0
        IN  /\ n <= Len(out.selected)
            /\ SubSeq(out.selected, 1, n) = rr.selected
            /\ \A i, j \in 1..n : i < j =>
                  /\ SelectedRound(i) <= SelectedRound(j)
                  /\ SelectedRound(i) = SelectedRound(j)
                        => MakeRank(SelectedMake(i)) < MakeRank(SelectedMake(j))
            /\ \A m \in SelMakes : Count(m) > sel.per_make_limit =>
                  /\ n < sel.max_listings
                  /\ \A x \in SelMakes : \/ rr.counter[x] >= sel.per_make_limit
                                          \/ rr.grouped[x] = <<>>
            /\ n >= sel.max_listings =>
                  /\ out.selected = rr.selected
                  /\ \A m \in SelMakes : Count(m) = rr.counter[m]
                  /\ \A m \in SelMakes : Count(m) <= sel.per_make_limit
                  /\ \A m1, m2 \in {x \in SelMakes : rr.grouped[x] # <<>>} :
                        Count(m1) - Count(m2) <= 1

\* Both cases of C18 in one call cannot happen, so the witness takes the
\* one the claim singles out: the round-robin stops short with every make
\* at the cap or empty, and the drain then takes a make over the cap.
C18_Witness ==
    /\ sel.pc = "done"
    /\ Cardinality(SelMakes) >= 2
    /\ sel.per_make_limit = 1
    /\ Len(SelRoundRobin.selected) = 2
    /\ Len(SelRoundRobin.selected) < sel.max_listings
    /\ \E m \in DOMAIN sel.result.distribution :
          sel.result.distribution[m] > sel.per_make_limit

(***************************************************************************)
(* Claims on discovery.                                                    *)
(***************************************************************************)
\* The <url> nodes of the documents answered for the detail sitemaps, and
\* the candidates taken from them (after both per-sitemap truncations).
SitemapNodes ==
    UNION {SeqRange(disc.detail_sitemaps[i].urls) : i \in 1..Len(disc.detail_sitemaps)}
TakenCandidates == UNION {SeqRange(disc.parsed[i]) : i \in 1..Len(disc.parsed)}

UniqueUrls(items) ==
    \A i, j \in 1..Len(items) : items[i].url = items[j].url => i = j

\* C19 as stated: of two <url> nodes, in any detail sitemaps, with the same
\* canonical URL and different lastmod values, the pool holds the URL at
\* most once and never with a lastmod earlier than the later of the two,
\* whatever the per-sitemap caps.
C19_LaterEntryOfAnyTwo ==
    disc.pc = "done" =>
        /\ UniqueUrls(disc.result)
        /\ \A e1, e2 \in SitemapNodes :
              (/\ canonical_detail_url(e1.loc) # NoUrl
               /\ canonical_detail_url(e1.loc) = canonical_detail_url(e2.loc)
               /\ e1.lastmod # Null /\ e2.lastmod # Null
               /\ e1.lastmod # e2.lastmod)
              => \A k \in 1..Len(disc.result) :
                    disc.result[k].url = canonical_detail_url(e1.loc)
                    => disc.result[k].lastmod >= Max(e1.lastmod, e2.lastmod)

\* C19 amended: among the candidates taken from the sitemaps that were
\* fetched and parsed (the first URLS_PER_SITEMAP nodes, then the first
\* per_sitemap_cap candidates), by_url and the pool hold each URL at most
\* once, with the latest lastmod taken for it, in every order of completion.
C19_LatestOfTakenEntries ==
    /\ UniqueUrls(disc.by_url)
    /\ UniqueUrls(disc.result)
    /\ \A c \in TakenCandidates :
          \E k \in 1..Len(disc.by_url) :
              /\ disc.by_url[k].url = c.url
              /\ disc.by_url[k].lastmod >= c.lastmod
              /\ disc.by_url[k] \in TakenCandidates
    /\ \A k \in 1..Len(disc.result) :
          /\ disc.result[k] \in TakenCandidates
          /\ \A c \in TakenCandidates :
                c.url = disc.result[k].url => c.lastmod <= disc.result[k].lastmod

\* Two sitemaps hold listing 1, the earlier entry under the bare host and the
\* later under the www. host; the pool has it with the later lastmod.
C19_Witness ==
    /\ disc.pc = "done"
    /\ \E i, j \in 1..Len(disc.parsed) :
          /\ i # j
          /\ \E c \in SeqRange(disc.parsed[i]) : c.url = UrlOf(1) /\ c.lastmod = 1
          /\ \E c \in SeqRange(disc.parsed[j]) : c.url = UrlOf(1) /\ c.lastmod = MaxLastmod
          /\ \E e \in SeqRange(disc.detail_sitemaps[j].urls) : e.loc.www /\ e.loc.id = 1
          /\ \E e \in SeqRange(disc.detail_sitemaps[i].urls) : ~e.loc.www /\ e.loc.id = 1
    /\ \E k \in 1..Len(disc.result) :
          disc.result[k].url = UrlOf(1) /\ disc.result[k].lastmod = MaxLastmod

\* C20: the list returned by discovery has at most POOL_SIZE candidates, in
\* non-increasing order of lastmod, all of them deduplicated candidates, and
\* no deduplicated candidate left out is later than a returned one.
C20_PoolSortedAndTruncated ==
    disc.pc = "done" =>
        /\ Len(disc.result) <= POOL_SIZE
        /\ Len(disc.result) = Min(POOL_SIZE, Len(disc.by_url))
        /\ SeqRange(disc.result) \subseteq SeqRange(disc.by_url)
        /\ \A i, j \in 1..Len(disc.result) :
              i < j => disc.result[i].lastmod >= disc.result[j].lastmod
        /\ \A b \in SeqRange(disc.by_url) \ SeqRange(disc.result) :
              \A r \in SeqRange(disc.result) : b.lastmod <= r.lastmod

\* More deduplicated candidates than POOL_SIZE, stored in increasing order
\* of lastmod: the sort reorders them and the truncation leaves the earliest out.
C20_Witness ==
    /\ disc.pc = "done"
    /\ Len(disc.by_url) > POOL_SIZE
    /\ disc.by_url[1].lastmod < disc.by_url[Len(disc.by_url)].lastmod
    /\ disc.by_url[1] \notin SeqRange(disc.result)
    /\ disc.result[1].lastmod > disc.result[Len(disc.result)].lastmod

\* The sitemaps answered so far in the call, and those among them that failed.
Answered == {i \in 1..Len(disc.detail_sitemaps) :
                i <= disc.offset + CONCURRENCY /\ i \notin disc.pending}
FailedSitemaps == {i \in 1..Len(disc.detail_sitemaps) : disc.detail_sitemaps[i].kind # "xml"}

ParsedListing == CHOOSE l \in prs.result.listing : TRUE
BasePrice == parse_base_price_jpy(prs.page.base).price
TotalPrice == parse_total_price_jpy(prs.page.total)

\* C22: when the base and the total price both parse to a valid value, a
\* total below the base is dropped (total_price_jpy and total_price_rub are
\* None, price_jpy is the base) and a total at or above the base is kept.
C22_TotalBelowBaseDropped ==
    (/\ prs.pc = "done" /\ prs.result.listing # {}
     /\ BasePrice # Null /\ TotalPrice # Null)
    => /\ ParsedListing.price_jpy = BasePrice
       /\ BasePrice > 0 /\ TotalPrice > 0
       /\ TotalPrice < BasePrice =>
             /\ ParsedListing.total_price_jpy = Null
             /\ ParsedListing.total_price_rub = Null
       /\ TotalPrice >= BasePrice =>
             /\ ParsedListing.total_price_jpy = TotalPrice
             /\ ParsedListing.total_price_rub = ToRub(TotalPrice)

\* Base 1,234 manyen and total 80 manyen: the total is dropped.
C22_Witness ==
    /\ prs.pc = "done" /\ prs.result.listing # {}
    /\ BasePrice = 12340000
    /\ TotalPrice = 800000
    /\ ParsedListing.price_jpy = 12340000
    /\ ParsedListing.total_price_jpy = Null

\* The spec boxes of the page that carry the year label and hold a year.
YearBoxes ==
    {i \in 1..Len(prs.page.boxes) :
        prs.page.boxes[i].title = "year" /\ YearSearch(prs.page.boxes[i].num) # Null}

\* C23: a listing is never returned without a year: a returned listing has
\* the 19xx or 20xx year of a spec box that carries the year label, and a
\* page with no such box yields a ParseFailure and no listing, also when a
\* table row of the page gives a year.
C23_YearMandatory ==
    prs.pc = "done" =>
        /\ Cardinality(prs.result.listing) + Cardinality(prs.result.failure) = 1
        /\ \A l \in prs.result.listing :
              /\ l.year # Null
              /\ l.year >= 1900 /\ l.year <= 2099
              /\ \E i \in YearBoxes : YearSearch(prs.page.boxes[i].num) = l.year
        /\ YearBoxes = {} =>
              /\ prs.result.listing = {}
              /\ \E f \in prs.result.failure :
                    f.error_type \in {"missing_year", "listing_unavailable"}

\* An available page whose only labelled box holds no year and whose table
\* has a year row: the result is the missing_year failure.
C23_Witness ==
    /\ prs.pc = "done"
    /\ prs.page.final = "detail" /\ ~prs.page.marker
    /\ prs.page.rows # <<>>
    /\ \E i \in 1..Len(prs.page.boxes) :
          prs.page.boxes[i].title = "year" /\ prs.page.boxes[i].num = <<"1", "8", "9", "9">>
    /\ YearBoxes = {}
    /\ \E f \in prs.result.failure : f.error_type = "missing_year"

\* The display text of the base-price node when it is a manyen-unit number
\* and nothing else: digits, optionally "." and digits, the unit sign and
\* optionally the yen sign.  DisplayedManyen is <<int digits, frac digits>>.
BaseText == price_node_text(prs.page.base.text)
DisplayedManyen == ManyenMatchAt(BaseText, 1)
IsManyenNumber ==
    /\ prs.page.base.present
    /\ BaseText # <<>>
    /\ ~HasPriceMarker(BaseText)
    /\ DisplayedManyen # <<>>
    /\ LET used == Len(DisplayedManyen[1]) + Len(DisplayedManyen[2])
                   + (IF DisplayedManyen[2] = <<>> THEN 0 ELSE 1) + 1
       IN  \/ Len(BaseText) = used
           \/ Len(BaseText) = used + 1 /\ BaseText[Len(BaseText)] = "yen"

\* C24 as stated: for a base-price node whose display text is the manyen
\* number n, price_jpy is round(n x 10000), or None when sanitization
\* rejects that value, and no other number; price_rub is round(price_jpy x
\* rate) when price_jpy is present and None otherwise.
C24_ManyenPriceOrNone ==
    (prs.pc = "done" /\ prs.result.listing # {} /\ IsManyenNumber)
    => /\ ParsedListing.price_jpy = sanitize_price_jpy(ManyenToJpy(DisplayedManyen))
       /\ ParsedListing.price_rub = ToRub(ParsedListing.price_jpy)

(***************************************************************************)
(* Claims on the parse stage and the control loop.                         *)
(***************************************************************************)
\* C25 as stated, for the body taken from the sampling cache: when the parse
\* stage finishes a candidate whose cached page is the generic search page
\* (its prefetch was redirected there), the outcome is a failure with
\* error_type listing_unavailable and the candidate is marked unavailable.
C25_SearchRedirectUnavailable ==
    [][\A w \in Workers, e \in ExtIds :
          (/\ pc[w] = "process"
           /\ e \in DOMAIN html_cache[w]
           /\ html_cache[w][e] = "search"
           /\ e \notin DoneIds(process_result[w])
           /\ e \in DoneIds(process_result'[w]))
          => /\ e \in process_result'[w].unavailable_external_ids
             /\ \E f \in process_result'[w].failed_rows :
                   f.source_listing_id = e /\ f.error_type = "listing_unavailable"]_vars

\* C26: in run-forever mode the worker never stops and, whatever stage a
\* cycle raised at, goes on to start another cycle; in run-once mode it
\* stops after its one cycle, returned or raised, and starts no other.
C26_LoopSurvivesFailure ==
    /\ [](\A w \in running : pc[w] = "stopped" => run_once)
    /\ [][\A w \in running :
            /\ pc[w] = "stopped" => pc'[w] = "stopped"
            /\ pc[w] \in {"failed", "summary"} /\ pc'[w] # pc[w]
                 => pc'[w] = (IF run_once THEN "stopped" ELSE "idle")
            /\ run_once /\ pc'[w] = "idle" => pc[w] = "idle"
            /\ pc'[w] = "discover" /\ pc[w] # "discover" => pc[w] = "idle"]_vars
    /\ \A w \in Workers :
          /\ (w \in running /\ ~run_once /\ pc[w] = "failed") ~> (pc[w] = "discover")
          /\ (w \in running /\ ~run_once /\ pc[w] = "summary") ~> (pc[w] = "discover")
          /\ (w \in running /\ run_once) ~> (pc[w] = "stopped")

\* A cycle that raised in the parse stage, in run-forever mode.
C26_Witness ==
    /\ ~run_once
    /\ pc[1] = "failed"
    /\ failed_at[1] = "process"

\* C27: after any sequence of discovery touches, upserts, mark-unavailable
\* updates and stale sweeps, every row of the table is active exactly when
\* its deleted_at is null.
C27_ActiveIffNotDeleted ==
    \A r \in store : r.is_active <=> (r.deleted_at = Null)

\* The table holds a row that was deactivated and a row that is active,
\* while a cycle is about to touch what it discovered.
C27_Witness ==
    /\ \E r \in store : ~r.is_active /\ r.deleted_at # Null
    /\ \E r \in store : r.is_active /\ r.deleted_at = Null /\ r.maker # "Unknown"
    /\ pc[1] = "touch"

\* C28: for a pool of distinct URLs, a target above zero and any prefetch
\* outcomes, the selector returns exactly min(target, size of the pool)
\* candidates, all from the pool and none twice; for a target of zero or
\* less it returns the empty selection and has fetched nothing.
SelSelected == sel.result.selected
C28_SelectionSize ==
    sel.pc = "done" =>
        IF sel.max_listings <= 0
        THEN /\ SelSelected = <<>>
             /\ sel.result.html_cache = EmptyMap
             /\ sel.result.distribution = EmptyMap
        ELSE /\ Len(SelSelected) = Min(sel.max_listings, Len(sel.sampling_candidates))
             /\ SeqRange(SelSelected) \subseteq SeqRange(sel.sampling_candidates)
             /\ \A i, j \in 1..Len(SelSelected) : SelSelected[i] = SelSelected[j] => i = j
\* A selection that needed all three stages: a capped make drained past its
\* cap and an undetermined candidate taken by the final fill.
C28_Witness ==
    /\ sel.pc = "done"
    /\ sel.max_listings = MaxPool
    /\ Len(sel.sampling_candidates) = MaxPool
    /\ sel.per_make_limit = 1
    /\ Len(SelSelected) = MaxPool
    /\ \E m \in DOMAIN sel.result.distribution : sel.result.distribution[m] > 1
    /\ \E c \in SeqRange(SelSelected) : c \notin DOMAIN sel.result.html_cache
\* A call with target zero on a non-empty pool.
C28_WitnessZero ==
    /\ sel.pc = "done"
    /\ sel.max_listings = 0
    /\ Len(sel.sampling_candidates) = MaxPool
    /\ SelSelected = <<>>

\* C29: when the discovery touch hits a row that exists for (source,
\* external_id), only url, last_seen_at, is_active and deleted_at change;
\* make, model, year, price and scraped_at keep their values, so parsed
\* data is never replaced by the Unknown placeholder, and rows outside the
\* batch are left as they were.
KeptColumns == {"source", "external_id", "maker", "model", "year", "price_jpy", "scraped_at"}
TouchedColumns == {"url", "last_seen_at", "is_active", "deleted_at"}
C29_TouchFrame ==
    [][\A w \in running :
          (pc[w] = "touch" /\ pc'[w] # "touch") =>
              \A r \in store :
                  IF r.source = SOURCE_NAME /\ r.external_id \in candidates[w]
                  THEN /\ Cardinality(RowsOf(store', r.external_id)) = 1
                       /\ LET r2 == TheRow(store', r.external_id)
                          IN  /\ DOMAIN r2 = DOMAIN r
                              /\ \A col \in DOMAIN r \ TouchedColumns : r2[col] = r[col]
                              /\ KeptColumns \subseteq DOMAIN r \ TouchedColumns
                              /\ r2.url = UrlOf(r.external_id)
                              /\ r2.last_seen_at = now
                              /\ r2.is_active /\ r2.deleted_at = Null
                  ELSE r \in store']_vars
\* After a touch: a parsed listing that had been flagged unavailable under
\* an older URL is Active again, seen now under the present URL, with its
\* parsed data and the scraped_at of its parse; beside it a row the touch
\* has just inserted.
C29_Witness ==
    /\ pc[1] = NextStage("touch")
    /\ reactivated[1] = 1
    /\ \E r \in store :
          /\ r.external_id = 1
          /\ r.maker = "Toyota" /\ r.model = "Prius" /\ r.year = 2011 /\ r.price_jpy = 1000
          /\ r.scraped_at < now
          /\ r.last_seen_at = now /\ r.is_active /\ r.deleted_at = Null
          /\ r.url = UrlOf(1)
    /\ PlaceholderRow(2, now) \in store

\* C30: in the parse stage every selected candidate produces exactly one
\* outcome: while the stage runs processed = parsed + failed_parse counts
\* the finished candidates, each in the parsed rows or in the failure rows
\* and never in both; when the stage has ended processed is the number of
\* selected candidates, there is one failure row for each failed candidate,
\* and the unavailable ids are failed candidates, none of them parsed,
\* whatever the order in which the tasks of a batch finish.
ParsedIds(w) == {row.external_id : row \in process_result[w].parsed}
FailedIds(w) == {row.source_listing_id : row \in process_result[w].failed_rows}
C30_OneOutcomePerCandidate ==
    \A w \in running :
        LET pr == process_result[w]
        IN  /\ pr.processed = Cardinality(pr.parsed) + pr.failed_parse
            /\ Cardinality(ParsedIds(w)) = Cardinality(pr.parsed)
            /\ Cardinality(pr.failed_rows) = pr.failed_parse
            /\ Cardinality(FailedIds(w)) = pr.failed_parse
            /\ ParsedIds(w) \cap FailedIds(w) = {}
            /\ pr.unavailable_external_ids \subseteq FailedIds(w)
            /\ pr.unavailable_external_ids \cap ParsedIds(w) = {}
            /\ pc[w] = "process" => /\ pr.processed < Len(selected[w])
                                    /\ ParsedIds(w) \cup FailedIds(w) \subseteq SeqRange(selected[w])
            /\ pc[w] = NextStage("process") =>
                   /\ pr.processed = Len(selected[w])
                   /\ ParsedIds(w) \cup FailedIds(w) = SeqRange(selected[w])
\* The stage has ended on a selection of two batches: the second candidate
\* was parsed, the first failed and is unavailable, the third failed and is
\* not.
C30_Witness ==
    /\ pc[1] = NextStage("process")
    /\ Len(selected[1]) = CONCURRENCY + 1
    /\ process_result[1].processed = CONCURRENCY + 1
    /\ ParsedIds(1) = {selected[1][2]}
    /\ process_result[1].failed_parse = 2
    /\ process_result[1].unavailable_external_ids = {selected[1][1]}
\* Mid-stage: of the first batch the second candidate has finished, with
\* a failure, and the first has not.
C30_WitnessSecondFinishedFirst ==
    /\ pc[1] = "process"
    /\ Len(selected[1]) >= 2
    /\ process_result[1].processed = 1
    /\ FailedIds(1) = {selected[1][2]}

====
